---- MODULE Spec2Model ----
(***************************************************************************)
(* Model of the SCI polygon-avoidance path planner                         *)
(* (src/engines/sci/engine/kpathing.cpp, build without OLD_PATHFINDING).   *)
(*                                                                         *)
(* One behaviour is one call of kAvoidPath with 6..8 arguments: the        *)
(* polygon set is converted, the start and the end are fixed up and        *)
(* merged, the vertex index is built, A* runs and the path is written.     *)
(*                                                                         *)
(* Vertex objects live in an arena `V` (a sequence of Vertex records);     *)
(* a Vertex pointer is an index into it and the NULL pointer is 0.         *)
(* A FloatPoint is an exact rational pair [x, y, d] standing for           *)
(* (x/d, y/d) with d > 0.                                                  *)
(***************************************************************************)
EXTENDS Integers, Sequences, FiniteSets, TLC

\* ------------------------------------------------------------------------
\* Bounds of the model
\* ------------------------------------------------------------------------
\* Screen size passed to the calls on the grid scenes (argv[5], argv[6]).
Width == 6
Height == 5
\* The diagnostics counter saturates at this value.
MaxWarnings == 2

\* ------------------------------------------------------------------------
\* Program constants
\* ------------------------------------------------------------------------
POLY_LAST_POINT == 30583
POLY_TOTAL_ACCESS == 0
POLY_NEAREST_ACCESS == 1
POLY_BARRED_ACCESS == 2
POLY_CONTAINED_ACCESS == 3
CONT_OUTSIDE == 0
CONT_ON_EDGE == 1
CONT_INSIDE == 2
\* 0xFFFFFFFF in the source: larger than every distance or cost. The model
\* uses the largest integer the checker represents; every distance and cost
\* of the model is below 2 * (Width + Height).
HUGE_DISTANCE == 2147483647
PF_OK == 0
PF_ERROR == -1
PF_FATAL == -2
NULL == 0
\* "no point": the value of a NULL Common::Point pointer
NoPoint == <<>>

\* The screen size of the call (argv[5], argv[6]); PathfindingState::_width
\* and _height. They are declared here because pointOnScreenBorder and
\* edgeOnScreenBorder read them.
VARIABLES width, height

Point(x, y) == <<x, y>>

\* Common::Point::sqrDist for coordinate differences below 0x1000
sqrDist(a, b) == (a[1] - b[1]) * (a[1] - b[1]) + (a[2] - b[2]) * (a[2] - b[2])

\* (uint32)sqrt((float)n): the integer part of the square root
RECURSIVE SqrtFrom(_, _)
SqrtFrom(n, r) == IF (r + 1) * (r + 1) > n THEN r ELSE SqrtFrom(n, r + 1)
isqrt(n) == SqrtFrom(n, 0)

\* ------------------------------------------------------------------------
\* Vertex and the circular vertex list
\* ------------------------------------------------------------------------
\* Vertex::Vertex: costG = HUGE_DISTANCE, path_prev = NULL. costF is left
\* uninitialised by the constructor; it is written before it is ever read
\* (a vertex is relaxed in the same iteration that puts it into openSet).
NewVertex(p) ==
    [v |-> p, _next |-> NULL, _prev |-> NULL,
     costF |-> HUGE_DISTANCE, costG |-> HUGE_DISTANCE, path_prev |-> NULL]

CLIST_NEXT(V, elm) == V[elm]._next
CLIST_PREV(V, elm) == V[elm]._prev
VERTEX_HAS_EDGES(V, elm) == elm # CLIST_NEXT(V, elm)

\* CLIST_FOREACH: the elements of the list from its head, in _next order
RECURSIVE ForeachFrom(_, _, _)
ForeachFrom(V, head, var) ==
    <<var>> \o (IF V[var]._next = head THEN <<>> ELSE ForeachFrom(V, head, V[var]._next))
CLIST_FOREACH(V, head) == IF head = NULL THEN <<>> ELSE ForeachFrom(V, head, head)

\* CircularVertexList::insertHead; the new head is elm
insertHead(V, head, elm) ==
    IF head = NULL
    THEN [V EXCEPT ![elm]._next = elm, ![elm]._prev = elm]
    ELSE LET V1 == [V EXCEPT ![elm]._next = head, ![elm]._prev = V[head]._prev]
             V2 == [V1 EXCEPT ![head]._prev = elm]
         IN  [V2 EXCEPT ![V2[elm]._prev]._next = elm]

\* The insertion of elm before listelm
insertAfter_Before(V, listelm, elm) ==
    LET V1 == [V EXCEPT ![elm]._next = listelm, ![elm]._prev = V[listelm]._prev]
        V2 == [V1 EXCEPT ![V1[listelm]._prev]._next = elm]
    IN  [V2 EXCEPT ![listelm]._prev = elm]

\* CircularVertexList::insertAfter
insertAfter(V, listelm, elm) ==
    LET V1 == [V EXCEPT ![elm]._prev = listelm, ![elm]._next = V[listelm]._next]
        V2 == [V1 EXCEPT ![V1[listelm]._next]._prev = elm]
    IN  [V2 EXCEPT ![listelm]._next = elm]

\* CircularVertexList::reverse: _prev and _next of every element are swapped
reverse(V, head) ==
    IF head = NULL THEN V
    ELSE LET elms == {CLIST_FOREACH(V, head)[i] : i \in 1..Len(CLIST_FOREACH(V, head))}
         IN  [i \in DOMAIN V |->
                IF i \in elms
                THEN [V[i] EXCEPT !._next = V[i]._prev, !._prev = V[i]._next]
                ELSE V[i]]

\* ------------------------------------------------------------------------
\* Geometry kernel
\* ------------------------------------------------------------------------
area(a, b, c) == (b[1] - a[1]) * (a[2] - c[2]) - (c[1] - a[1]) * (a[2] - b[2])

left(a, b, c) == area(a, b, c) > 0

collinear(a, b, c) == area(a, b, c) = 0

between(a, b, c) ==
    IF ~collinear(a, b, c) THEN FALSE
    ELSE IF a[1] # b[1]
         THEN (a[1] <= c[1] /\ c[1] <= b[1]) \/ (a[1] >= c[1] /\ c[1] >= b[1])
         ELSE (a[2] <= c[2] /\ c[2] <= b[2]) \/ (a[2] >= c[2] /\ c[2] >= b[2])

\* The crossing test that takes c on the left of (a, b) and d on its right only
intersect_proper_OneWay(a, b, c, d) ==
    LET ab == left(a, b, c) /\ left(b, a, d)
        cd == (left(c, d, a) /\ left(d, c, b)) \/ (left(c, d, b) /\ left(d, c, a))
    IN  ab /\ cd

intersect_proper(a, b, c, d) ==
    LET ab == (left(a, b, c) /\ left(b, a, d)) \/ (left(a, b, d) /\ left(b, a, c))
        cd == (left(c, d, a) /\ left(d, c, b)) \/ (left(c, d, b) /\ left(d, c, a))
    IN  ab /\ cd

\* The crossing of one edge with the crossings to the left left out
EdgeCrossing_NoLeft(p, v1, v2) ==
    LET rstrad == (v1[2] < p[2]) # (v2[2] < p[2])
        x0 == v2[1] * v1[2] - v1[1] * v2[2] + (v1[1] - v2[1]) * p[2]
        xq0 == v1[2] - v2[2]
        x == IF xq0 < 0 THEN -x0 ELSE x0
        xq == IF xq0 < 0 THEN -xq0 ELSE xq0
    IN  IF rstrad /\ (x > xq * p[1]) THEN "r" ELSE "n"

\* One edge (v1, v2) of contained(): "r" for a crossing counted to the
\* right, "l" for one counted to the left, "n" for none.
EdgeCrossing(p, v1, v2) ==
    LET rstrad == (v1[2] < p[2]) # (v2[2] < p[2])
        lstrad == (v1[2] > p[2]) # (v2[2] > p[2])
        x0 == v2[1] * v1[2] - v1[1] * v2[2] + (v1[1] - v2[1]) * p[2]
        xq0 == v1[2] - v2[2]
        x == IF xq0 < 0 THEN -x0 ELSE x0
        xq == IF xq0 < 0 THEN -xq0 ELSE xq0
    IN  IF lstrad \/ rstrad
        THEN IF rstrad /\ (x > xq * p[1]) THEN "r"
             ELSE IF lstrad /\ (x < xq * p[1]) THEN "l"
             ELSE "n"
        ELSE "n"

\* The crossing test without the inversion for POLY_CONTAINED_ACCESS
contained_NoInversion(p, polygon, V) ==
    LET vs == CLIST_FOREACH(V, polygon.vertices)
        n == Len(vs)
        cross(i) == EdgeCrossing(p, V[vs[i]].v, V[CLIST_NEXT(V, vs[i])].v)
        lcross == Cardinality({i \in 1..n : cross(i) = "l"})
        rcross == Cardinality({i \in 1..n : cross(i) = "r"})
    IN  IF \E i \in 1..n : V[vs[i]].v = p THEN CONT_ON_EDGE
        ELSE IF (lcross + rcross) % 2 = 1 THEN CONT_ON_EDGE
        ELSE IF rcross % 2 = 1 THEN CONT_INSIDE
        ELSE CONT_OUTSIDE

contained(p, polygon, V) ==
    LET vs == CLIST_FOREACH(V, polygon.vertices)
        n == Len(vs)
        cross(i) == EdgeCrossing(p, V[vs[i]].v, V[CLIST_NEXT(V, vs[i])].v)
        lcross == Cardinality({i \in 1..n : cross(i) = "l"})
        rcross == Cardinality({i \in 1..n : cross(i) = "r"})
    IN  IF \E i \in 1..n : V[vs[i]].v = p THEN CONT_ON_EDGE
        ELSE IF (lcross + rcross) % 2 = 1 THEN CONT_ON_EDGE
        ELSE IF rcross % 2 = 1
             THEN (IF polygon.type = POLY_CONTAINED_ACCESS THEN CONT_OUTSIDE ELSE CONT_INSIDE)
        ELSE IF polygon.type = POLY_CONTAINED_ACCESS THEN CONT_INSIDE
        ELSE CONT_OUTSIDE

RECURSIVE AreaFrom(_, _, _)
AreaFrom(V, first, v) ==
    IF CLIST_NEXT(V, v) = first THEN 0
    ELSE area(V[first].v, V[v].v, V[CLIST_NEXT(V, v)].v) + AreaFrom(V, first, CLIST_NEXT(V, v))

polygon_area(polygon, V) ==
    AreaFrom(V, polygon.vertices, CLIST_NEXT(V, polygon.vertices))

\* The vertex order left as the script gave it
fix_vertex_order_Keep(polygon, V) == V

\* fix_vertex_order returns the arena with the polygon's list reversed if needed
fix_vertex_order(polygon, V) ==
    LET a == polygon_area(polygon, V)
    IN  IF (a > 0 /\ polygon.type = POLY_CONTAINED_ACCESS)
           \/ (a < 0 /\ polygon.type # POLY_CONTAINED_ACCESS)
        THEN reverse(V, polygon.vertices)
        ELSE V

inside(p, vertex, V) ==
    IF VERTEX_HAS_EDGES(V, vertex)
    THEN LET prev == V[CLIST_PREV(V, vertex)].v
             next == V[CLIST_NEXT(V, vertex)].v
             cur == V[vertex].v
         IN  IF left(prev, cur, next)
             THEN left(cur, next, p) /\ left(prev, cur, p)
             ELSE left(cur, next, p) \/ left(prev, cur, p)
    ELSE FALSE

\* EdgeBlocks without the test for a proper intersection
EdgeBlocks_NoCrossing(vertex_cur, vertex, edge, V) ==
    /\ VERTEX_HAS_EDGES(V, edge)
    /\ between(V[vertex_cur].v, V[vertex].v, V[edge].v)
    /\ (inside(V[vertex_cur].v, edge, V) \/ inside(V[vertex].v, edge, V))

\* Is some use of the edge starting at index entry j in the way of the
\* sight line (vertex_cur, vertex)?  (the body of the loop over j)
EdgeBlocks(vertex_cur, vertex, edge, V) ==
    /\ VERTEX_HAS_EDGES(V, edge)
    /\ IF between(V[vertex_cur].v, V[vertex].v, V[edge].v)
       THEN inside(V[vertex_cur].v, edge, V) \/ inside(V[vertex].v, edge, V)
       ELSE intersect_proper(V[vertex_cur].v, V[vertex].v, V[edge].v, V[CLIST_NEXT(V, edge)].v)

\* Visibility without the test of the polygon edges
IsVisible_NoEdges(vertex_index, V, vertex_cur, vertex) ==
    ~(vertex = vertex_cur \/ inside(V[vertex].v, vertex_cur, V) \/ inside(V[vertex_cur].v, vertex, V))

IsVisible(vertex_index, V, vertex_cur, vertex) ==
    /\ ~(vertex = vertex_cur \/ inside(V[vertex].v, vertex_cur, V) \/ inside(V[vertex_cur].v, vertex, V))
    /\ \A j \in 1..Len(vertex_index) : ~EdgeBlocks(vertex_cur, vertex, vertex_index[j], V)

\* visVerts: every visible vertex is pushed to the front, so the list is in
\* the reverse of index order
RECURSIVE VisFrom(_, _, _, _)
VisFrom(vertex_index, V, vertex_cur, i) ==
    IF i > Len(vertex_index) THEN <<>>
    ELSE VisFrom(vertex_index, V, vertex_cur, i + 1)
         \o (IF IsVisible(vertex_index, V, vertex_cur, vertex_index[i])
             THEN <<vertex_index[i]>> ELSE <<>>)

visible_vertices(vertex_index, V, vertex_cur) == VisFrom(vertex_index, V, vertex_cur, 1)

pointOnScreenBorder(p) ==
    (p[1] = 0) \/ (p[1] = width - 1) \/ (p[2] = 0) \/ (p[2] = height - 1)

edgeOnScreenBorder(p, q) ==
    \/ (p[1] = 0 /\ q[1] = 0)
    \/ (p[2] = 0 /\ q[2] = 0)
    \/ (p[1] = width - 1 /\ q[1] = width - 1)
    \/ (p[2] = height - 1 /\ q[2] = height - 1)

\* ------------------------------------------------------------------------
\* FloatPoint
\* ------------------------------------------------------------------------
FloatPoint(x, y, d) == [x |-> x, y |-> y, d |-> d]

\* integer division rounding towards zero: the (int16) cast of a float
TruncDiv(n, d) == IF n >= 0 THEN n \div d ELSE -((-n) \div d)

\* FloatPoint::toPoint: (int16)(x + 0.5), (int16)(y + 0.5)
toPoint(f) == Point(TruncDiv(2 * f.x + f.d, 2 * f.d), TruncDiv(2 * f.y + f.d, 2 * f.d))

\* find_free_point that returns the last probe instead of PF_FATAL
find_free_point_NeverFatal(f, polygon, V) ==
    LET p0 == Point((2 * f.x + f.d) \div (2 * f.d), (2 * f.y + f.d) \div (2 * f.d))
        p1 == Point(f.x \div f.d, f.y \div f.d)
        p2 == Point(p1[1] + 1, p1[2])
        p3 == Point(p2[1], p2[2] + 1)
        p4 == Point(p3[1] - 1, p3[2])
        in(q) == contained(q, polygon, V) = CONT_INSIDE
    IN  IF ~in(p0) THEN [err |-> PF_OK, ret |-> p0]
        ELSE IF ~in(p1) THEN [err |-> PF_OK, ret |-> p1]
        ELSE IF ~in(p2) THEN [err |-> PF_OK, ret |-> p2]
        ELSE IF ~in(p3) THEN [err |-> PF_OK, ret |-> p3]
        ELSE [err |-> PF_OK, ret |-> p4]

\* The nearest lattice point, taken without the containment test
find_free_point_NoProbe(f, polygon, V) ==
    [err |-> PF_OK,
     ret |-> Point((2 * f.x + f.d) \div (2 * f.d), (2 * f.y + f.d) \div (2 * f.d))]

\* The search that tries the lattice point (floor x, floor y) before the rounded point
find_free_point_FloorFirst(f, polygon, V) ==
    LET p0 == Point((2 * f.x + f.d) \div (2 * f.d), (2 * f.y + f.d) \div (2 * f.d))
        p1 == Point(f.x \div f.d, f.y \div f.d)
        p2 == Point(p1[1] + 1, p1[2])
        p3 == Point(p2[1], p2[2] + 1)
        p4 == Point(p3[1] - 1, p3[2])
        in(q) == contained(q, polygon, V) = CONT_INSIDE
    IN  IF ~in(p1) THEN [err |-> PF_OK, ret |-> p1]
        ELSE IF ~in(p0) THEN [err |-> PF_OK, ret |-> p0]
        ELSE IF ~in(p2) THEN [err |-> PF_OK, ret |-> p2]
        ELSE IF ~in(p3) THEN [err |-> PF_OK, ret |-> p3]
        ELSE IF ~in(p4) THEN [err |-> PF_OK, ret |-> p4]
        ELSE [err |-> PF_FATAL, ret |-> NoPoint]

find_free_point(f, polygon, V) ==
    LET p0 == Point((2 * f.x + f.d) \div (2 * f.d), (2 * f.y + f.d) \div (2 * f.d))
        p1 == Point(f.x \div f.d, f.y \div f.d)
        p2 == Point(p1[1] + 1, p1[2])
        p3 == Point(p2[1], p2[2] + 1)
        p4 == Point(p3[1] - 1, p3[2])
        in(q) == contained(q, polygon, V) = CONT_INSIDE
    IN  IF ~in(p0) THEN [err |-> PF_OK, ret |-> p0]
        ELSE IF ~in(p1) THEN [err |-> PF_OK, ret |-> p1]
        ELSE IF ~in(p2) THEN [err |-> PF_OK, ret |-> p2]
        ELSE IF ~in(p3) THEN [err |-> PF_OK, ret |-> p3]
        ELSE IF ~in(p4) THEN [err |-> PF_OK, ret |-> p4]
        ELSE [err |-> PF_FATAL, ret |-> NoPoint]

\* The loop of findNearPoint from the i-th edge on; near_p and dist are the
\* loop's running values. No polygon of a scene has an edge of length 0
\* (the division by sqrDist would give NaN), so such an edge is passed over.
RECURSIVE NearFrom(_, _, _, _, _, _, _)
NearFrom(p, polygon, V, vs, i, near_p, dist) ==
    IF i > Len(vs) THEN near_p
    ELSE LET p1 == V[vs[i]].v
             p2 == V[CLIST_NEXT(V, vs[i])].v
             sq == sqrDist(p1, p2)
             num == (p[1] - p1[1]) * (p2[1] - p1[1]) + (p[2] - p1[2]) * (p2[2] - p1[2])
             u == IF num < 0 THEN 0 ELSE IF num > sq THEN sq ELSE num
             new_point == FloatPoint(p1[1] * sq + u * (p2[1] - p1[1]),
                                     p1[2] * sq + u * (p2[2] - p1[2]), sq)
             new_dist == sqrDist(p, toPoint(new_point))
         IN  IF (polygon.type # POLY_CONTAINED_ACCESS /\ edgeOnScreenBorder(p1, p2)) \/ sq = 0
             THEN NearFrom(p, polygon, V, vs, i + 1, near_p, dist)
             ELSE IF new_dist < dist
                  THEN NearFrom(p, polygon, V, vs, i + 1, new_point, new_dist)
                  ELSE NearFrom(p, polygon, V, vs, i + 1, near_p, dist)

\* PathfindingState::findNearPoint
findNearPoint(p, polygon, V) ==
    find_free_point(
        NearFrom(p, polygon, V, CLIST_FOREACH(V, polygon.vertices), 1,
                 FloatPoint(0, 0, 1), HUGE_DISTANCE),
        polygon, V)

intersection(a, b, vertex, V) ==
    LET c == V[vertex].v
        d == V[CLIST_NEXT(V, vertex)].v
        denom == a[1] * (d[2] - c[2]) + b[1] * (c[2] - d[2])
                 + d[1] * (b[2] - a[2]) + c[1] * (a[2] - b[2])
        nums == a[1] * (d[2] - c[2]) + c[1] * (a[2] - d[2]) + d[1] * (c[2] - a[2])
        numt == -(a[1] * (c[2] - b[2]) + b[1] * (a[2] - c[2]) + c[1] * (b[2] - a[2]))
        \* s = nums/denom and t = numt/denom, compared with 0 and 1
        sg == IF denom < 0 THEN -1 ELSE 1
        s_ok == 0 <= sg * nums /\ sg * nums <= sg * denom
        t_ok == 0 < sg * numt /\ sg * numt < sg * denom
    IN  IF denom = 0 THEN [err |-> PF_ERROR, ret |-> NoPoint]
        ELSE IF s_ok /\ t_ok
             THEN [err |-> PF_OK,
                   ret |-> FloatPoint(sg * (a[1] * denom + nums * (b[1] - a[1])),
                                      sg * (a[2] * denom + nums * (b[2] - a[2])),
                                      sg * denom)]
             ELSE [err |-> PF_ERROR, ret |-> NoPoint]

\* The loops of nearest_intersection, flattened: es is the sequence of
\* <<polygon, vertex>> pairs in iteration order; acc = [isec, ipolygon, dist].
RECURSIVE IsecFrom(_, _, _, _, _, _)
IsecFrom(es, V, p, q, i, acc) ==
    IF i > Len(es) THEN acc
    ELSE LET polygon == es[i][1]
             vertex == es[i][2]
             hit == between(p, q, V[vertex].v)
             isc == intersection(p, q, vertex, V)
             skip == IF hit THEN ~inside(q, vertex, V)
                     ELSE \/ ~left(V[vertex].v, V[CLIST_NEXT(V, vertex)].v, q)
                          \/ isc.err # PF_OK
             new_isec == IF hit THEN FloatPoint(V[vertex].v[1], V[vertex].v[2], 1) ELSE isc.ret
         IN  IF skip THEN IsecFrom(es, V, p, q, i + 1, acc)
             ELSE IF sqrDist(p, toPoint(new_isec)) < acc.dist
                  THEN IsecFrom(es, V, p, q, i + 1,
                                [isec |-> new_isec, ipolygon |-> polygon,
                                 dist |-> sqrDist(p, toPoint(new_isec))])
                  ELSE IsecFrom(es, V, p, q, i + 1, acc)

RECURSIVE EdgeList(_, _, _)
EdgeList(polys, V, i) ==
    IF i > Len(polys) THEN <<>>
    ELSE [k \in 1..Len(CLIST_FOREACH(V, polys[i].vertices)) |->
            <<polys[i], CLIST_FOREACH(V, polys[i].vertices)[k]>>]
         \o EdgeList(polys, V, i + 1)

nearest_intersection(polys, V, p, q) ==
    LET acc == IsecFrom(EdgeList(polys, V, 1), V, p, q, 1,
                        [isec |-> FloatPoint(0, 0, 1), ipolygon |-> NULL, dist |-> HUGE_DISTANCE])
    IN  IF acc.dist = HUGE_DISTANCE THEN [err |-> PF_ERROR, ret |-> NoPoint]
        ELSE find_free_point(acc.isec, acc.ipolygon, V)

nearbyPolygon(point, polygon, V) ==
    \/ contained(Point(point[1], point[2] + 1), polygon, V) # CONT_INSIDE
    \/ contained(Point(point[1], point[2] - 1), polygon, V) # CONT_INSIDE
    \/ contained(Point(point[1] + 1, point[2]), polygon, V) # CONT_INSIDE
    \/ contained(Point(point[1] - 1, point[2]), polygon, V) # CONT_INSIDE

\* ------------------------------------------------------------------------
\* Polygon set
\* ------------------------------------------------------------------------
Polygon(t, head) == [type |-> t, vertices |-> head]

\* The first vertex, in polygon list order and list order, whose point is v
RECURSIVE FindVertex(_, _, _, _)
FindVertex(polys, V, v, i) ==
    IF i > Len(polys) THEN NULL
    ELSE LET vs == CLIST_FOREACH(V, polys[i].vertices)
             ks == {k \in 1..Len(vs) : V[vs[k]].v = v}
         IN  IF ks # {} THEN vs[CHOOSE k \in ks : \A m \in ks : k <= m]
             ELSE FindVertex(polys, V, v, i + 1)

\* The first vertex, in the same order, that starts an edge v lies on
RECURSIVE FindEdge(_, _, _, _)
FindEdge(polys, V, v, i) ==
    IF i > Len(polys) THEN NULL
    ELSE LET vs == CLIST_FOREACH(V, polys[i].vertices)
             ks == {k \in 1..Len(vs) : between(V[vs[k]].v, V[CLIST_NEXT(V, vs[k])].v, v)}
         IN  IF VERTEX_HAS_EDGES(V, polys[i].vertices) /\ ks # {}
             THEN vs[CHOOSE k \in ks : \A m \in ks : k <= m]
             ELSE FindEdge(polys, V, v, i + 1)

\* merge_point without the search for a vertex already at v
merge_point_AlwaysNew(polys, V, v) ==
    LET v_new == Len(V) + 1
        Vn == Append(V, NewVertex(v))
        vertex == FindEdge(polys, Vn, v, 1)
    IN  IF vertex # NULL
        THEN [polygons |-> polys, V |-> insertAfter(Vn, vertex, v_new), vertex |-> v_new]
        ELSE [polygons |-> <<Polygon(POLY_BARRED_ACCESS, v_new)>> \o polys,
              V |-> insertHead(Vn, NULL, v_new), vertex |-> v_new]

\* merge_point: the new polygon list, the new arena and the vertex returned
merge_point(polys, V, v) ==
    LET found == FindVertex(polys, V, v, 1)
        v_new == Len(V) + 1
        Vn == Append(V, NewVertex(v))
        vertex == FindEdge(polys, Vn, v, 1)
    IN  IF found # NULL
        THEN [polygons |-> polys, V |-> V, vertex |-> found]
        ELSE IF vertex # NULL
             THEN [polygons |-> polys, V |-> insertAfter(Vn, vertex, v_new), vertex |-> v_new]
             ELSE [polygons |-> <<Polygon(POLY_BARRED_ACCESS, v_new)>> \o polys,
                   V |-> insertHead(Vn, NULL, v_new), vertex |-> v_new]

\* The loop of convert_polygon: a new Vertex per point, each put at the head
RECURSIVE InsertPoints(_, _, _, _)
InsertPoints(V, head, points, i) ==
    IF i > Len(points) THEN [V |-> V, head |-> head]
    ELSE InsertPoints(insertHead(Append(V, NewVertex(points[i])), head, Len(V) + 1),
                      Len(V) + 1, points, i + 1)

\* convert_polygon of a script polygon [type, points] (size = Len(points));
\* the result is the NULL pointer (null = TRUE) for a polygon without vertices. The per-game workarounds
\* do not apply to the scenes of the model.
convert_polygon(V, polygon) ==
    IF Len(polygon.points) = 0
    THEN [V |-> V, poly |-> Polygon(polygon.type, NULL), null |-> TRUE]
    ELSE LET r == InsertPoints(V, NULL, polygon.points, 1)
             poly == Polygon(polygon.type, r.head)
         IN  [V |-> fix_vertex_order(poly, r.V), poly |-> poly, null |-> FALSE]

\* The conversion loop that keeps the size of the last polygon only as the count
RECURSIVE ConvertFrom_LastSize(_, _, _, _, _)
ConvertFrom_LastSize(poly_list, i, polys, V, count) ==
    IF i > Len(poly_list) THEN [polygons |-> polys, V |-> V, count |-> count]
    ELSE LET c == convert_polygon(V, poly_list[i])
         IN  IF c.null THEN ConvertFrom_LastSize(poly_list, i + 1, polys, c.V, count)
             ELSE ConvertFrom_LastSize(poly_list, i + 1, Append(polys, c.poly), c.V,
                                       Len(poly_list[i].points))

\* The conversion loop of convert_polygon_set
RECURSIVE ConvertFrom(_, _, _, _, _)
ConvertFrom(poly_list, i, polys, V, count) ==
    IF i > Len(poly_list) THEN [polygons |-> polys, V |-> V, count |-> count]
    ELSE LET c == convert_polygon(V, poly_list[i])
         IN  IF c.null THEN ConvertFrom(poly_list, i + 1, polys, c.V, count)
             ELSE ConvertFrom(poly_list, i + 1, Append(polys, c.poly), c.V,
                              count + Len(poly_list[i].points))

\* The change of the polygon list that drops the NearestAccess polygons too
RECURSIVE change_polygons_opt_0_DropNearest(_)
change_polygons_opt_0_DropNearest(polys) ==
    IF polys = <<>> THEN <<>>
    ELSE IF Head(polys).type \in {POLY_TOTAL_ACCESS, POLY_NEAREST_ACCESS}
         THEN change_polygons_opt_0_DropNearest(Tail(polys))
    ELSE <<Head(polys)>> \o change_polygons_opt_0_DropNearest(Tail(polys))

\* change_polygons_opt_0
RECURSIVE change_polygons_opt_0(_)
change_polygons_opt_0(polys) ==
    IF polys = <<>> THEN <<>>
    ELSE IF Head(polys).type = POLY_TOTAL_ACCESS THEN change_polygons_opt_0(Tail(polys))
    ELSE <<IF Head(polys).type = POLY_NEAREST_ACCESS
           THEN [Head(polys) EXCEPT !.type = POLY_TOTAL_ACCESS]
           ELSE Head(polys)>> \o change_polygons_opt_0(Tail(polys))

\* The vertex index: the vertices of every polygon, in list order
RECURSIVE BuildIndex(_, _, _)
BuildIndex(polys, V, i) ==
    IF i > Len(polys) THEN <<>>
    ELSE CLIST_FOREACH(V, polys[i].vertices) \o BuildIndex(polys, V, i + 1)

\* erase(it) of a PolygonList
Erase(polys, i) == SubSeq(polys, 1, i - 1) \o SubSeq(polys, i + 1, Len(polys))

\* ------------------------------------------------------------------------
\* A* and the output
\* ------------------------------------------------------------------------
\* The vertex of openSet with the lowest costF: the first one in list order
\* among those with the least value (the scan replaces only on "<")
FindMin(open, V) ==
    LET ks == {k \in 1..Len(open) :
                 /\ V[open[k]].costF < HUGE_DISTANCE
                 /\ \A m \in 1..Len(open) : V[open[k]].costF <= V[open[m]].costF}
    IN  IF ks = {} THEN NULL ELSE open[CHOOSE k \in ks : \A m \in ks : k <= m]

SeqContains(list, v) == \E k \in 1..Len(list) : list[k] = v

Remove(list, v) == SelectSeq(list, LAMBDA x : x # v)

\* Relax without the exemption of the end vertex from the border test
RECURSIVE Relax_BorderEnd(_, _, _, _, _, _, _)
Relax_BorderEnd(visVerts, i, open, closed, V, vertex_min, v_end) ==
    IF i > Len(visVerts) THEN [openSet |-> open, V |-> V]
    ELSE LET vertex == visVerts[i]
             open1 == IF SeqContains(open, vertex) THEN open ELSE <<vertex>> \o open
             new_dist == V[vertex_min].costG + isqrt(sqrDist(V[vertex_min].v, V[vertex].v))
             V1 == IF new_dist < V[vertex].costG
                   THEN [V EXCEPT ![vertex].costG = new_dist,
                                  ![vertex].costF = new_dist + isqrt(sqrDist(V[vertex].v, V[v_end].v)),
                                  ![vertex].path_prev = vertex_min]
                   ELSE V
         IN  IF SeqContains(closed, vertex) \/ pointOnScreenBorder(V[vertex].v)
             THEN Relax_BorderEnd(visVerts, i + 1, open, closed, V, vertex_min, v_end)
             ELSE Relax_BorderEnd(visVerts, i + 1, open1, closed, V1, vertex_min, v_end)

\* The loop over visVerts without the test of the screen border
RECURSIVE Relax_NoBorderTest(_, _, _, _, _, _, _)
Relax_NoBorderTest(visVerts, i, open, closed, V, vertex_min, v_end) ==
    IF i > Len(visVerts) THEN [openSet |-> open, V |-> V]
    ELSE LET vertex == visVerts[i]
             open1 == IF SeqContains(open, vertex) THEN open ELSE <<vertex>> \o open
             new_dist == V[vertex_min].costG + isqrt(sqrDist(V[vertex_min].v, V[vertex].v))
             V1 == IF new_dist < V[vertex].costG
                   THEN [V EXCEPT ![vertex].costG = new_dist,
                                  ![vertex].costF = new_dist + isqrt(sqrDist(V[vertex].v, V[v_end].v)),
                                  ![vertex].path_prev = vertex_min]
                   ELSE V
         IN  IF SeqContains(closed, vertex)
             THEN Relax_NoBorderTest(visVerts, i + 1, open, closed, V, vertex_min, v_end)
             ELSE Relax_NoBorderTest(visVerts, i + 1, open1, closed, V1, vertex_min, v_end)

\* The loop over visVerts that adds only the cost of the last step
RECURSIVE Relax_NoAccumulate(_, _, _, _, _, _, _)
Relax_NoAccumulate(visVerts, i, open, closed, V, vertex_min, v_end) ==
    IF i > Len(visVerts) THEN [openSet |-> open, V |-> V]
    ELSE LET vertex == visVerts[i]
             open1 == IF SeqContains(open, vertex) THEN open ELSE <<vertex>> \o open
             new_dist == isqrt(sqrDist(V[vertex_min].v, V[vertex].v))
             V1 == IF new_dist < V[vertex].costG
                   THEN [V EXCEPT ![vertex].costG = new_dist,
                                  ![vertex].costF = new_dist + isqrt(sqrDist(V[vertex].v, V[v_end].v)),
                                  ![vertex].path_prev = vertex_min]
                   ELSE V
         IN  IF SeqContains(closed, vertex)
             THEN Relax_NoAccumulate(visVerts, i + 1, open, closed, V, vertex_min, v_end)
             ELSE IF vertex # v_end /\ pointOnScreenBorder(V[vertex].v)
                  THEN Relax_NoAccumulate(visVerts, i + 1, open, closed, V, vertex_min, v_end)
                  ELSE Relax_NoAccumulate(visVerts, i + 1, open1, closed, V1, vertex_min, v_end)

\* The loop over visVerts without the test of the closed set
RECURSIVE Relax_NoClosedTest(_, _, _, _, _, _, _)
Relax_NoClosedTest(visVerts, i, open, closed, V, vertex_min, v_end) ==
    IF i > Len(visVerts) THEN [openSet |-> open, V |-> V]
    ELSE LET vertex == visVerts[i]
             open1 == IF SeqContains(open, vertex) THEN open ELSE <<vertex>> \o open
             new_dist == V[vertex_min].costG + isqrt(sqrDist(V[vertex_min].v, V[vertex].v))
             V1 == IF new_dist < V[vertex].costG
                   THEN [V EXCEPT ![vertex].costG = new_dist,
                                  ![vertex].costF = new_dist + isqrt(sqrDist(V[vertex].v, V[v_end].v)),
                                  ![vertex].path_prev = vertex_min]
                   ELSE V
         IN  IF vertex # v_end /\ pointOnScreenBorder(V[vertex].v)
             THEN Relax_NoClosedTest(visVerts, i + 1, open, closed, V, vertex_min, v_end)
             ELSE Relax_NoClosedTest(visVerts, i + 1, open1, closed, V1, vertex_min, v_end)

\* The loop over visVerts that records the predecessor of vertex_min as
\* the predecessor
RECURSIVE Relax_SkipPrev(_, _, _, _, _, _, _)
Relax_SkipPrev(visVerts, i, open, closed, V, vertex_min, v_end) ==
    IF i > Len(visVerts) THEN [openSet |-> open, V |-> V]
    ELSE LET vertex == visVerts[i]
             open1 == IF SeqContains(open, vertex) THEN open ELSE <<vertex>> \o open
             new_dist == V[vertex_min].costG + isqrt(sqrDist(V[vertex_min].v, V[vertex].v))
             V1 == IF new_dist < V[vertex].costG
                   THEN [V EXCEPT ![vertex].costG = new_dist,
                                  ![vertex].costF = new_dist + isqrt(sqrDist(V[vertex].v, V[v_end].v)),
                                  ![vertex].path_prev = V[vertex_min].path_prev]
                   ELSE V
         IN  IF SeqContains(closed, vertex)
             THEN Relax_SkipPrev(visVerts, i + 1, open, closed, V, vertex_min, v_end)
             ELSE IF vertex # v_end /\ pointOnScreenBorder(V[vertex].v)
                  THEN Relax_SkipPrev(visVerts, i + 1, open, closed, V, vertex_min, v_end)
                  ELSE Relax_SkipPrev(visVerts, i + 1, open1, closed, V1, vertex_min, v_end)

\* The loop over visVerts of one A* iteration, from its i-th element on
RECURSIVE Relax(_, _, _, _, _, _, _)
Relax(visVerts, i, open, closed, V, vertex_min, v_end) ==
    IF i > Len(visVerts) THEN [openSet |-> open, V |-> V]
    ELSE LET vertex == visVerts[i]
             open1 == IF SeqContains(open, vertex) THEN open ELSE <<vertex>> \o open
             new_dist == V[vertex_min].costG + isqrt(sqrDist(V[vertex_min].v, V[vertex].v))
             V1 == IF new_dist < V[vertex].costG
                   THEN [V EXCEPT ![vertex].costG = new_dist,
                                  ![vertex].costF = new_dist + isqrt(sqrDist(V[vertex].v, V[v_end].v)),
                                  ![vertex].path_prev = vertex_min]
                   ELSE V
         IN  IF SeqContains(closed, vertex)
             THEN Relax(visVerts, i + 1, open, closed, V, vertex_min, v_end)
             ELSE IF vertex # v_end /\ pointOnScreenBorder(V[vertex].v)
                  THEN Relax(visVerts, i + 1, open, closed, V, vertex_min, v_end)
                  ELSE Relax(visVerts, i + 1, open1, closed, V1, vertex_min, v_end)

\* The vertices from vertex back along path_prev, written first to last
RECURSIVE PathTo(_, _)
PathTo(V, vertex) ==
    IF vertex = NULL THEN <<>> ELSE PathTo(V, V[vertex].path_prev) \o <<V[vertex].v>>

Sentinel == Point(POLY_LAST_POINT, POLY_LAST_POINT)

\* output_path that never writes the append point
output_path_NoAppend(V, v_start, v_end, prepend, append) ==
    IF V[v_end].path_prev = NULL
    THEN <<IF prepend # NoPoint THEN prepend ELSE V[v_start].v, V[v_start].v, Sentinel>>
    ELSE (IF prepend # NoPoint THEN <<prepend>> ELSE <<>>)
         \o PathTo(V, v_end)
         \o <<Sentinel>>

\* output_path that writes the end vertex when the end has no predecessor
output_path_UnreachableEnd(V, v_start, v_end, prepend, append) ==
    IF V[v_end].path_prev = NULL
    THEN <<IF prepend # NoPoint THEN prepend ELSE V[v_start].v, V[v_end].v, Sentinel>>
    ELSE (IF prepend # NoPoint THEN <<prepend>> ELSE <<>>)
         \o PathTo(V, v_end)
         \o (IF append # NoPoint THEN <<append>> ELSE <<>>)
         \o <<Sentinel>>

\* output_path: the points written, the sentinel included
output_path(V, v_start, v_end, prepend, append) ==
    IF V[v_end].path_prev = NULL
    THEN <<IF prepend # NoPoint THEN prepend ELSE V[v_start].v, V[v_start].v, Sentinel>>
    ELSE (IF prepend # NoPoint THEN <<prepend>> ELSE <<>>)
         \o PathTo(V, v_end)
         \o (IF append # NoPoint THEN <<append>> ELSE <<>>)
         \o <<Sentinel>>

\* ------------------------------------------------------------------------
\* The scenes: script polygon lists given to the call
\* ------------------------------------------------------------------------
ScriptPolygon(t, pts) == [type |-> t, points |-> pts]

Grid == {Point(x, y) : x \in 0..(Width - 1), y \in 0..(Height - 1)}

SceneEmpty == <<>>
\* two overlapping obstacles: (2, 2) is strictly inside both
SceneTwoBarred ==
    <<ScriptPolygon(POLY_BARRED_ACCESS, <<Point(1, 1), Point(3, 1), Point(3, 3), Point(1, 3)>>),
      ScriptPolygon(POLY_BARRED_ACCESS, <<Point(1, 2), Point(4, 1), Point(4, 3)>>)>>
SceneNearestBarred ==
    <<ScriptPolygon(POLY_NEAREST_ACCESS, <<Point(1, 1), Point(3, 1), Point(3, 3), Point(1, 3)>>),
      ScriptPolygon(POLY_BARRED_ACCESS, <<Point(1, 2), Point(4, 1), Point(4, 3)>>)>>
\* a walkable area, an obstacle and a polygon without vertices
SceneTotal ==
    <<ScriptPolygon(POLY_TOTAL_ACCESS, <<Point(1, 1), Point(3, 1), Point(3, 3), Point(1, 3)>>),
      ScriptPolygon(POLY_BARRED_ACCESS, <<Point(1, 1), Point(3, 3), Point(4, 1)>>),
      ScriptPolygon(POLY_BARRED_ACCESS, <<>>)>>
SceneContained ==
    <<ScriptPolygon(POLY_CONTAINED_ACCESS, <<Point(1, 1), Point(4, 1), Point(4, 3), Point(1, 3)>>)>>
\* a walkable area too thin to hold a lattice point near most of its boundary
SceneSliver ==
    <<ScriptPolygon(POLY_CONTAINED_ACCESS, <<Point(0, 1), Point(5, 2), Point(5, 3)>>)>>
\* an obstacle with two vertices on the border of the smallest screen
SceneDiamond ==
    <<ScriptPolygon(POLY_BARRED_ACCESS, <<Point(1, 2), Point(3, 0), Point(5, 2), Point(3, 4)>>)>>

\* one call on a larger screen: an obstacle across the straight line from
\* the start to the end, on a screen whose border it does not touch
ScenarioB ==
    [start |-> Point(0, 0), end |-> Point(10, 0), opt |-> 1, width |-> 20, height |-> 20,
     poly_list |-> <<ScriptPolygon(POLY_BARRED_ACCESS,
                                   <<Point(4, -4), Point(4, 4), Point(6, 4), Point(6, -4)>>)>>]

\* a NearestAccess polygon alone: (2, 2) and (3, 2) are strictly inside it
SceneNearest ==
    <<ScriptPolygon(POLY_NEAREST_ACCESS, <<Point(1, 1), Point(4, 1), Point(4, 3), Point(1, 3)>>)>>

Scenes == {SceneEmpty, SceneTwoBarred, SceneNearestBarred, SceneTotal,
           SceneContained, SceneSliver, SceneDiamond, SceneNearest}

\* ------------------------------------------------------------------------
\* State
\* ------------------------------------------------------------------------
VARIABLES
    pc,             \* where the call is
    start, end,     \* argv[0..3]
    opt,            \* the optimization level
    poly_list,      \* the script polygon list
    polygons,       \* PathfindingState::polygons
    V,              \* the Vertex objects
    count,          \* the sum of the sizes of the converted polygons
    it,             \* the list iterator of the fixup loops (a position)
    new_start, new_end,
    prependPoint, appendPoint,
    vertex_start, vertex_end,
    vertex_index,
    openSet, closedSet,
    output,         \* the points written to the output array
    retval,         \* the value returned by the 3-argument call
    warnings        \* the number of warning() calls, saturating

vars == <<pc, start, end, opt, poly_list, width, height, polygons, V, count, it, new_start, new_end,
          prependPoint, appendPoint, vertex_start, vertex_end, vertex_index,
          openSet, closedSet, output, retval, warnings>>

Warn(n) == IF n + 1 > MaxWarnings THEN MaxWarnings ELSE n + 1

Init ==
    /\ pc = "convert"
    /\ \/ /\ start \in Grid
          /\ end \in Grid
          /\ opt \in 0..2
          /\ poly_list \in Scenes
          /\ width = Width
          /\ height = Height
       \/ /\ start = ScenarioB.start
          /\ end = ScenarioB.end
          /\ opt = ScenarioB.opt
          /\ poly_list = ScenarioB.poly_list
          /\ width = ScenarioB.width
          /\ height = ScenarioB.height
    /\ polygons = <<>>
    /\ V = <<>>
    /\ count = 0
    /\ it = 1
    /\ new_start = NoPoint
    /\ new_end = NoPoint
    /\ prependPoint = NoPoint
    /\ appendPoint = NoPoint
    /\ vertex_start = NULL
    /\ vertex_end = NULL
    /\ vertex_index = <<>>
    /\ openSet = <<>>
    /\ closedSet = <<>>
    /\ output = <<>>
    /\ retval = NULL
    /\ warnings = 0

\* convert_polygon_set, the conversion of the polygon list
ConvertPolygons ==
    /\ pc = "convert"
    /\ LET c == ConvertFrom(poly_list, 1, <<>>, <<>>, 0)
       IN  /\ polygons' = c.polygons
           /\ V' = c.V
           /\ count' = c.count
    /\ pc' = IF opt = 0 THEN "keyboard" ELSE "fixup_start"
    /\ new_start' = IF opt = 0 THEN NoPoint ELSE start
    /\ it' = 1
    /\ UNCHANGED <<start, end, opt, poly_list, width, height, retval, new_end, prependPoint, appendPoint,
                   vertex_start, vertex_end, vertex_index, openSet, closedSet, output, warnings>>

\* convert_polygon_set, the branch opt == 0, and the vertex index
KeyboardSupport ==
    /\ pc = "keyboard"
    /\ LET polys0 == change_polygons_opt_0(polygons)
           isec == nearest_intersection(polys0, V, start, end)
           m1 == IF isec.err = PF_OK THEN merge_point(polys0, V, isec.ret)
                 ELSE merge_point(polys0, V, start)
           m2 == merge_point(m1.polygons, m1.V, end)
       IN  IF isec.err = PF_FATAL
           THEN /\ pc' = "failed"
                /\ polygons' = <<>>
                /\ warnings' = Warn(warnings)
                /\ UNCHANGED <<V, prependPoint, vertex_start, vertex_end, vertex_index>>
           ELSE /\ pc' = "astar_start"
                /\ prependPoint' = IF isec.err = PF_OK THEN start ELSE prependPoint
                /\ polygons' = m2.polygons
                /\ V' = m2.V
                /\ vertex_start' = m1.vertex
                /\ vertex_end' = m2.vertex
                /\ vertex_index' = BuildIndex(m2.polygons, m2.V, 1)
                /\ UNCHANGED warnings
    /\ UNCHANGED <<start, end, opt, poly_list, width, height, retval, count, it, new_start, new_end, appendPoint,
                   openSet, closedSet, output>>

\* The pass of the start fixup that relocates a start on an edge too
FixupStartStep_OnEdge ==
    /\ pc = "fixup_start"
    /\ it <= Len(polygons)
    /\ LET polygon == polygons[it]
           cont == contained(start, polygon, V)
           type == polygon.type
           near == findNearPoint(start, polygon, V)
       IN  IF \/ (type = POLY_TOTAL_ACCESS /\ cont # CONT_OUTSIDE)
              \/ (type = POLY_CONTAINED_ACCESS /\ cont = CONT_INSIDE
                    /\ ~nearbyPolygon(start, polygon, V))
           THEN \* delete *it; it = erase(it); continue
                /\ polygons' = Erase(polygons, it)
                /\ UNCHANGED <<pc, it, new_start, prependPoint, warnings>>
           ELSE IF type # POLY_TOTAL_ACCESS /\ cont # CONT_OUTSIDE
           THEN IF prependPoint # NoPoint
                THEN \* warning(...); continue
                     /\ warnings' = Warn(warnings)
                     /\ UNCHANGED <<pc, it, polygons, new_start, prependPoint>>
                ELSE IF near.err # PF_OK
                THEN \* return NULL; the caller deletes the state
                     /\ pc' = "failed"
                     /\ polygons' = <<>>
                     /\ new_start' = NoPoint
                     /\ warnings' = Warn(warnings)
                     /\ UNCHANGED <<it, prependPoint>>
                ELSE /\ new_start' = near.ret
                     /\ prependPoint' = start
                     /\ warnings' = IF type \in {POLY_BARRED_ACCESS, POLY_CONTAINED_ACCESS}
                                    THEN Warn(warnings) ELSE warnings
                     /\ it' = it + 1
                     /\ UNCHANGED <<pc, polygons>>
           ELSE /\ it' = it + 1
                /\ UNCHANGED <<pc, polygons, new_start, prependPoint, warnings>>
    /\ UNCHANGED <<start, end, opt, poly_list, width, height, retval, V, count, new_end, appendPoint,
                   vertex_start, vertex_end, vertex_index, openSet, closedSet, output>>

\* fixup_start_point: one pass of the while loop
FixupStartStep ==
    /\ pc = "fixup_start"
    /\ it <= Len(polygons)
    /\ LET polygon == polygons[it]
           cont == contained(start, polygon, V)
           type == polygon.type
           near == findNearPoint(start, polygon, V)
       IN  IF \/ (type = POLY_TOTAL_ACCESS /\ cont # CONT_OUTSIDE)
              \/ (type = POLY_CONTAINED_ACCESS /\ cont = CONT_INSIDE
                    /\ ~nearbyPolygon(start, polygon, V))
           THEN \* delete *it; it = erase(it); continue
                /\ polygons' = Erase(polygons, it)
                /\ UNCHANGED <<pc, it, new_start, prependPoint, warnings>>
           ELSE IF type # POLY_TOTAL_ACCESS /\ cont = CONT_INSIDE
           THEN IF prependPoint # NoPoint
                THEN \* warning(...); continue
                     /\ warnings' = Warn(warnings)
                     /\ UNCHANGED <<pc, it, polygons, new_start, prependPoint>>
                ELSE IF near.err # PF_OK
                THEN \* return NULL; the caller deletes the state
                     /\ pc' = "failed"
                     /\ polygons' = <<>>
                     /\ new_start' = NoPoint
                     /\ warnings' = Warn(warnings)
                     /\ UNCHANGED <<it, prependPoint>>
                ELSE /\ new_start' = near.ret
                     /\ prependPoint' = start
                     /\ warnings' = IF type \in {POLY_BARRED_ACCESS, POLY_CONTAINED_ACCESS}
                                    THEN Warn(warnings) ELSE warnings
                     /\ it' = it + 1
                     /\ UNCHANGED <<pc, polygons>>
           ELSE /\ it' = it + 1
                /\ UNCHANGED <<pc, polygons, new_start, prependPoint, warnings>>
    /\ UNCHANGED <<start, end, opt, poly_list, width, height, retval, V, count, new_end, appendPoint,
                   vertex_start, vertex_end, vertex_index, openSet, closedSet, output>>

\* fixup_start_point returns new_start; fixup_end_point is entered
FixupStartDone ==
    /\ pc = "fixup_start"
    /\ it > Len(polygons)
    /\ pc' = "fixup_end"
    /\ it' = 1
    /\ new_end' = end
    /\ UNCHANGED <<start, end, opt, poly_list, width, height, retval, polygons, V, count, new_start,
                   prependPoint, appendPoint, vertex_start, vertex_end, vertex_index,
                   openSet, closedSet, output, warnings>>

\* The pass of the end fixup that keeps a TotalAccess polygon with the end on its edge
FixupEndStep_InsideOnly ==
    /\ pc = "fixup_end"
    /\ it <= Len(polygons)
    /\ LET polygon == polygons[it]
           cont == contained(end, polygon, V)
           type == polygon.type
           near == findNearPoint(end, polygon, V)
       IN  IF type = POLY_TOTAL_ACCESS /\ cont = CONT_INSIDE
           THEN /\ polygons' = Erase(polygons, it)
                /\ UNCHANGED <<pc, it, new_end, appendPoint, warnings>>
           ELSE IF type # POLY_TOTAL_ACCESS /\ cont # CONT_OUTSIDE
           THEN IF appendPoint # NoPoint
                THEN \* warning(...); continue
                     /\ warnings' = Warn(warnings)
                     /\ UNCHANGED <<pc, it, polygons, new_end, appendPoint>>
                ELSE IF near.err # PF_OK
                THEN /\ pc' = "failed"
                     /\ polygons' = <<>>
                     /\ new_end' = NoPoint
                     /\ warnings' = Warn(warnings)
                     /\ UNCHANGED <<it, appendPoint>>
                ELSE /\ new_end' = near.ret
                     /\ appendPoint' = IF type = POLY_NEAREST_ACCESS THEN end ELSE appendPoint
                     /\ it' = it + 1
                     /\ UNCHANGED <<pc, polygons, warnings>>
           ELSE /\ it' = it + 1
                /\ UNCHANGED <<pc, polygons, new_end, appendPoint, warnings>>
    /\ UNCHANGED <<start, end, opt, poly_list, width, height, retval, V, count, new_start, prependPoint,
                   vertex_start, vertex_end, vertex_index, openSet, closedSet, output>>

\* fixup_end_point: one pass of the while loop
FixupEndStep ==
    /\ pc = "fixup_end"
    /\ it <= Len(polygons)
    /\ LET polygon == polygons[it]
           cont == contained(end, polygon, V)
           type == polygon.type
           near == findNearPoint(end, polygon, V)
       IN  IF type = POLY_TOTAL_ACCESS /\ cont # CONT_OUTSIDE
           THEN /\ polygons' = Erase(polygons, it)
                /\ UNCHANGED <<pc, it, new_end, appendPoint, warnings>>
           ELSE IF type # POLY_TOTAL_ACCESS /\ cont # CONT_OUTSIDE
           THEN IF appendPoint # NoPoint
                THEN \* warning(...); continue
                     /\ warnings' = Warn(warnings)
                     /\ UNCHANGED <<pc, it, polygons, new_end, appendPoint>>
                ELSE IF near.err # PF_OK
                THEN /\ pc' = "failed"
                     /\ polygons' = <<>>
                     /\ new_end' = NoPoint
                     /\ warnings' = Warn(warnings)
                     /\ UNCHANGED <<it, appendPoint>>
                ELSE /\ new_end' = near.ret
                     /\ appendPoint' = IF type = POLY_NEAREST_ACCESS THEN end ELSE appendPoint
                     /\ it' = it + 1
                     /\ UNCHANGED <<pc, polygons, warnings>>
           ELSE /\ it' = it + 1
                /\ UNCHANGED <<pc, polygons, new_end, appendPoint, warnings>>
    /\ UNCHANGED <<start, end, opt, poly_list, width, height, retval, V, count, new_start, prependPoint,
                   vertex_start, vertex_end, vertex_index, openSet, closedSet, output>>

\* fixup_end_point returns new_end; convert_polygon_set merges both points
\* and builds the vertex index
MergePoints ==
    /\ pc = "fixup_end"
    /\ it > Len(polygons)
    /\ LET m1 == merge_point(polygons, V, new_start)
           m2 == merge_point(m1.polygons, m1.V, new_end)
       IN  /\ polygons' = m2.polygons
           /\ V' = m2.V
           /\ vertex_start' = m1.vertex
           /\ vertex_end' = m2.vertex
           /\ vertex_index' = BuildIndex(m2.polygons, m2.V, 1)
    /\ pc' = "astar_start"
    /\ UNCHANGED <<start, end, opt, poly_list, width, height, retval, count, it, new_start, new_end,
                   prependPoint, appendPoint, openSet, closedSet, output, warnings>>

\* AStar up to its loop
AStarStart ==
    /\ pc = "astar_start"
    /\ openSet' = <<vertex_start>>
    /\ closedSet' = <<>>
    /\ V' = [V EXCEPT ![vertex_start].costG = 0,
                      ![vertex_start].costF = isqrt(sqrDist(V[vertex_start].v, V[vertex_end].v))]
    /\ pc' = "astar"
    /\ UNCHANGED <<start, end, opt, poly_list, width, height, retval, polygons, count, it, new_start, new_end,
                   prependPoint, appendPoint, vertex_start, vertex_end, vertex_index,
                   output, warnings>>

\* AStar: one pass of the while loop
AStarStep ==
    /\ pc = "astar"
    /\ openSet # <<>>
    /\ LET vertex_min == FindMin(openSet, V)
           closed1 == <<vertex_min>> \o closedSet
           open1 == Remove(openSet, vertex_min)
           r == Relax(visible_vertices(vertex_index, V, vertex_min), 1, open1, closed1, V,
                      vertex_min, vertex_end)
       IN  IF vertex_min = vertex_end
           THEN /\ pc' = "output"
                /\ UNCHANGED <<openSet, closedSet, V>>
           ELSE /\ closedSet' = closed1
                /\ openSet' = r.openSet
                /\ V' = r.V
                /\ UNCHANGED pc
    /\ UNCHANGED <<start, end, opt, poly_list, width, height, retval, polygons, count, it, new_start, new_end,
                   prependPoint, appendPoint, vertex_start, vertex_end, vertex_index,
                   output, warnings>>

\* AStar: the loop ends with openSet empty
AStarUnreachable ==
    /\ pc = "astar"
    /\ openSet = <<>>
    /\ warnings' = Warn(warnings)
    /\ pc' = "output"
    /\ UNCHANGED <<start, end, opt, poly_list, width, height, retval, polygons, V, count, it, new_start, new_end,
                   prependPoint, appendPoint, vertex_start, vertex_end, vertex_index,
                   openSet, closedSet, output>>

\* kAvoidPath: output_path(p, s)
OutputPath ==
    /\ pc = "output"
    /\ output' = output_path(V, vertex_start, vertex_end, prependPoint, appendPoint)
    /\ pc' = "done"
    /\ UNCHANGED <<start, end, opt, poly_list, width, height, retval, polygons, V, count, it, new_start, new_end,
                   prependPoint, appendPoint, vertex_start, vertex_end, vertex_index,
                   openSet, closedSet, warnings>>

\* kAvoidPath: convert_polygon_set returned NULL, the direct path is written
DirectPath ==
    /\ pc = "failed"
    /\ output' = <<start, end, Sentinel>>
    /\ pc' = "done"
    /\ UNCHANGED <<start, end, opt, poly_list, width, height, retval, polygons, V, count, it, new_start, new_end,
                   prependPoint, appendPoint, vertex_start, vertex_end, vertex_index,
                   openSet, closedSet, warnings>>

Next ==
    \/ ConvertPolygons
    \/ KeyboardSupport
    \/ FixupStartStep
    \/ FixupStartDone
    \/ FixupEndStep
    \/ MergePoints
    \/ AStarStart
    \/ AStarStep
    \/ AStarUnreachable
    \/ OutputPath
    \/ DirectPath

Spec == Init /\ [][Next]_vars

\* ------------------------------------------------------------------------
\* The call with 3 arguments: is the point in the polygon
\* ------------------------------------------------------------------------
\* a concave polygon: (3, 3) lies in its notch
ShapeNotch == <<Point(1, 0), Point(5, 0), Point(5, 4), Point(3, 2), Point(1, 4)>>

\* a polygon with a horizontal edge, from (4, 2) to (2, 2), that points
\* inside it and points outside it are level with
ShapeEll == <<Point(0, 0), Point(4, 0), Point(4, 2), Point(2, 2), Point(2, 4), Point(0, 4)>>

Shapes ==
    {ShapeNotch, ShapeEll, <<>>}
    \cup UNION {{s[i].points : i \in 1..Len(s)} :
                s \in {SceneTwoBarred, SceneTotal, SceneContained, SceneSliver, SceneDiamond}}

PolygonTypes ==
    {POLY_TOTAL_ACCESS, POLY_NEAREST_ACCESS, POLY_BARRED_ACCESS, POLY_CONTAINED_ACCESS}

ContainsInit ==
    /\ pc = "contains"
    /\ start \in Grid
    /\ end = NoPoint
    /\ opt = 0
    /\ \E t \in PolygonTypes, pts \in Shapes : poly_list = <<ScriptPolygon(t, pts)>>
    /\ width = Width
    /\ height = Height
    /\ polygons = <<>>
    /\ V = <<>>
    /\ count = 0
    /\ it = 1
    /\ new_start = NoPoint
    /\ new_end = NoPoint
    /\ prependPoint = NoPoint
    /\ appendPoint = NoPoint
    /\ vertex_start = NULL
    /\ vertex_end = NULL
    /\ vertex_index = <<>>
    /\ openSet = <<>>
    /\ closedSet = <<>>
    /\ output = <<>>
    /\ retval = NULL
    /\ warnings = 0

\* The call without the override of the polygon type
ContainsPoint_NoOverride ==
    /\ pc = "contains"
    /\ LET r == convert_polygon(V, poly_list[1])
       IN  IF r.null
           THEN /\ retval' = NULL
                /\ UNCHANGED <<polygons, V>>
           ELSE /\ polygons' = <<r.poly>>
                /\ V' = r.V
                /\ retval' = IF contained(start, r.poly, r.V) # CONT_OUTSIDE THEN 1 ELSE 0
    /\ pc' = "done"
    /\ UNCHANGED <<start, end, opt, poly_list, width, height, count, it, new_start, new_end,
                   prependPoint, appendPoint, vertex_start, vertex_end, vertex_index,
                   openSet, closedSet, output, warnings>>

\* kAvoidPath, case 3. The polygon is deleted before the return; the model
\* keeps the converted polygon, with the overridden type, in the state.
ContainsPoint ==
    /\ pc = "contains"
    /\ LET r == convert_polygon(V, poly_list[1])
           polygon == [r.poly EXCEPT !.type = POLY_BARRED_ACCESS]
       IN  IF r.null
           THEN /\ retval' = NULL
                /\ UNCHANGED <<polygons, V>>
           ELSE /\ polygons' = <<polygon>>
                /\ V' = r.V
                /\ retval' = IF contained(start, polygon, r.V) # CONT_OUTSIDE THEN 1 ELSE 0
    /\ pc' = "done"
    /\ UNCHANGED <<start, end, opt, poly_list, width, height, count, it, new_start, new_end,
                   prependPoint, appendPoint, vertex_start, vertex_end, vertex_index,
                   openSet, closedSet, output, warnings>>

ContainsNext == ContainsPoint

ContainsSpec == ContainsInit /\ [][ContainsNext]_vars

\* ------------------------------------------------------------------------
\* Helpers of the properties
\* ------------------------------------------------------------------------
\* The points written before the sentinel
Written == SubSeq(output, 1, Len(output) - 1)

\* The search has run and left the end vertex with a predecessor
Routed == vertex_end # NULL /\ V[vertex_end].path_prev # NULL

\* The vertices of the route, from the start vertex to the vertex given
RECURSIVE RouteTo(_, _)
RouteTo(W, vertex) ==
    IF vertex = NULL THEN <<>> ELSE RouteTo(W, W[vertex].path_prev) \o <<vertex>>

\* Every vertex of every polygon of the state
PolygonVertices ==
    UNION {{CLIST_FOREACH(V, polygons[i].vertices)[k] :
              k \in 1..Len(CLIST_FOREACH(V, polygons[i].vertices))} : i \in 1..Len(polygons)}

\* ------------------------------------------------------------------------
\* C1: with an empty polygon set (no polygon, or only polygons without
\* vertices) the output before the sentinel is exactly start, end, for every
\* start, end and optimization level, start = end and points on the screen
\* border included.
\* ------------------------------------------------------------------------
C1_EmptySetDirect ==
    (pc = "done" /\ \A i \in 1..Len(poly_list) : poly_list[i].points = <<>>)
        => (output = <<start, end, Sentinel>> /\ Written = <<start, end>>)

C1_Witness ==
    /\ pc = "done"
    /\ poly_list = <<>>
    /\ start # end
    /\ pointOnScreenBorder(end)
    /\ Routed
    /\ Written = <<start, end>>

\* ------------------------------------------------------------------------
\* C2 as claimed: at optimization level 1 or 2, when the search selects the
\* end vertex, the last point before the sentinel is the input end, whether
\* or not end fixup relocated the end and whatever polygon type did.
\* ------------------------------------------------------------------------
C2_LastIsInputEnd ==
    (pc = "done" /\ opt # 0 /\ openSet # <<>>)
        => Written[Len(Written)] = end

\* C2 amended: at optimization level 1 or 2, when the search leaves the end
\* vertex with a predecessor, the last point before the sentinel is the
\* input end if end fixup recorded an append point (a NearestAccess polygon
\* relocated the end) and is otherwise the point of the end vertex, which is
\* the end as end fixup returned it: the relocated end, not the input end,
\* when a BarredAccess or ContainedAccess polygon relocated it.
C2_LastPoint ==
    (pc = "done" /\ opt # 0 /\ Routed)
        => /\ V[vertex_end].v = new_end
           /\ appendPoint \in {NoPoint, end}
           /\ Written[Len(Written)] = (IF appendPoint # NoPoint THEN end ELSE new_end)
           /\ appendPoint # NoPoint => Written[Len(Written) - 1] = new_end

C2_Witness ==
    /\ pc = "done"
    /\ opt # 0
    /\ Routed
    /\ appendPoint = NoPoint
    /\ new_end # end
    /\ Written[Len(Written)] = new_end

\* ------------------------------------------------------------------------
\* C3: every planning call terminates. A call is deterministic, so a step
\* that leaves the call where it was (same position, same iterator, same
\* data; only the count of warnings printed may differ) is repeated for
\* ever: no step of a terminating call does that.
\* ------------------------------------------------------------------------
ProgramState ==
    <<pc, polygons, V, count, it, new_start, new_end, prependPoint, appendPoint,
      vertex_start, vertex_end, vertex_index, openSet, closedSet, output>>

C3_Terminates == [][ProgramState' # ProgramState]_vars

\* ------------------------------------------------------------------------
\* C4: after a successful search, every segment between two consecutive
\* routed vertices properly intersects no edge of any polygon of the state
\* and does not enter a polygon's interior locally at either endpoint or at
\* any polygon vertex lying on the segment.
\* ------------------------------------------------------------------------
SegmentClear(a, b) ==
    /\ ~inside(V[b].v, a, V)
    /\ ~inside(V[a].v, b, V)
    /\ \A e \in PolygonVertices :
          VERTEX_HAS_EDGES(V, e) =>
            /\ ~intersect_proper(V[a].v, V[b].v, V[e].v, V[CLIST_NEXT(V, e)].v)
            /\ between(V[a].v, V[b].v, V[e].v)
                  => (~inside(V[a].v, e, V) /\ ~inside(V[b].v, e, V))

C4_RouteClear ==
    (pc = "done" /\ Routed)
        => LET route == RouteTo(V, vertex_end)
           IN  \A k \in 1..(Len(route) - 1) : SegmentClear(route[k], route[k + 1])

C4_Witness ==
    /\ pc = "done"
    /\ Routed
    /\ Len(RouteTo(V, vertex_end)) >= 4
    /\ \E e \in PolygonVertices : VERTEX_HAS_EDGES(V, e)
    /\ \A k \in 1..(Len(RouteTo(V, vertex_end)) - 1) :
          SegmentClear(RouteTo(V, vertex_end)[k], RouteTo(V, vertex_end)[k + 1])

\* ------------------------------------------------------------------------
\* C5: when the search reaches the end vertex, the sum of the step costs
\* along the predecessor chain from start to end is no greater than the sum
\* along any start-to-end route of the visibility graph restricted to the
\* vertices that are not on the screen border (start and end excepted).
\* ------------------------------------------------------------------------
\* The cost of one step as AStar computes it
StepCost(a, b) == isqrt(sqrDist(V[a].v, V[b].v))

RECURSIVE RouteCost(_, _)
RouteCost(route, k) ==
    IF k >= Len(route) THEN 0 ELSE StepCost(route[k], route[k + 1]) + RouteCost(route, k + 1)

\* May a route pass from the i-th to the j-th vertex of the index?
StepAllowed(i, j) ==
    /\ SeqContains(visible_vertices(vertex_index, V, vertex_index[i]), vertex_index[j])
    /\ vertex_index[j] \in {vertex_start, vertex_end} \/ ~pointOnScreenBorder(V[vertex_index[j]].v)

StepTable ==
    LET n == Len(vertex_index)
    IN  SubSeq([i \in 1..n |-> SubSeq([j \in 1..n |-> StepAllowed(i, j)], 1, n)], 1, n)

LeastOf(S) == CHOOSE m \in S : \A x \in S : m <= x

\* One round of relaxation of every step of the table
Round(d, table) ==
    LET n == Len(d)
    IN  SubSeq([j \in 1..n |->
                  LeastOf({d[j]} \cup {d[i] + StepCost(vertex_index[i], vertex_index[j]) :
                                         i \in {k \in 1..n : d[k] < HUGE_DISTANCE /\ table[k][j]}})],
               1, n)

RECURSIVE Settle(_, _, _)
Settle(d, table, rounds) ==
    IF rounds = 0 THEN d ELSE Settle(Round(d, table), table, rounds - 1)

\* The least cost of a route from the start vertex to each vertex of the index
LeastCost ==
    LET n == Len(vertex_index)
        d0 == SubSeq([i \in 1..n |-> IF vertex_index[i] = vertex_start THEN 0 ELSE HUGE_DISTANCE],
                     1, n)
    IN  Settle(d0, StepTable, n - 1)

C5_LeastCost ==
    (pc = "done" /\ Routed)
        => LET e == CHOOSE i \in 1..Len(vertex_index) : vertex_index[i] = vertex_end
           IN  RouteCost(RouteTo(V, vertex_end), 1) <= LeastCost[e]

\* ------------------------------------------------------------------------
\* C6: when the search ends with the end vertex having no predecessor
\* (openSet emptied before the end was selected), the output is exactly two
\* points and the sentinel: the recorded prepend point, or else the start
\* vertex's point, then the start vertex's point; neither the end point nor
\* an append point is written.
\* ------------------------------------------------------------------------
C6_UnreachableOutput ==
    (pc = "done" /\ vertex_end # NULL /\ (openSet = <<>> \/ V[vertex_end].path_prev = NULL))
        => /\ V[vertex_end].path_prev = NULL
           /\ Len(output) = 3
           /\ output[1] = (IF prependPoint # NoPoint THEN prependPoint ELSE V[vertex_start].v)
           /\ output[2] = V[vertex_start].v
           /\ output[3] = Sentinel

C6_Witness ==
    /\ pc = "done"
    /\ vertex_end # NULL
    /\ openSet = <<>>
    /\ vertex_start # vertex_end
    /\ prependPoint # NoPoint
    /\ V[vertex_end].v # V[vertex_start].v
    /\ output = <<prependPoint, V[vertex_start].v, Sentinel>>

\* ------------------------------------------------------------------------
\* C7: when the relocation of the start or of the end fails fatally (the
\* rounded projection and the four probed lattice points are all Inside the
\* polygon), or the nearest-intersection step of optimization level 0 fails
\* fatally, scene building fails, no search is run and the output is exactly
\* the input start, the input end and the sentinel.
\* ------------------------------------------------------------------------
\* The projection of p on the polygon and the five points tried around it
ProbesInside(p, polygon) ==
    LET f == NearFrom(p, polygon, V, CLIST_FOREACH(V, polygon.vertices), 1,
                      FloatPoint(0, 0, 1), HUGE_DISTANCE)
        x == f.x \div f.d
        y == f.y \div f.d
        probes == {Point((2 * f.x + f.d) \div (2 * f.d), (2 * f.y + f.d) \div (2 * f.d)),
                   Point(x, y), Point(x + 1, y), Point(x + 1, y + 1), Point(x, y + 1)}
    IN  \A q \in probes : contained(q, polygon, V) = CONT_INSIDE

FatalStart ==
    /\ pc = "fixup_start"
    /\ it <= Len(polygons)
    /\ prependPoint = NoPoint
    /\ polygons[it].type # POLY_TOTAL_ACCESS
    /\ contained(start, polygons[it], V) = CONT_INSIDE
    /\ polygons[it].type = POLY_CONTAINED_ACCESS => nearbyPolygon(start, polygons[it], V)
    /\ ProbesInside(start, polygons[it])

FatalEnd ==
    /\ pc = "fixup_end"
    /\ it <= Len(polygons)
    /\ appendPoint = NoPoint
    /\ polygons[it].type # POLY_TOTAL_ACCESS
    /\ contained(end, polygons[it], V) # CONT_OUTSIDE
    /\ ProbesInside(end, polygons[it])

FatalKeyboard ==
    /\ pc = "keyboard"
    /\ nearest_intersection(change_polygons_opt_0(polygons), V, start, end).err = PF_FATAL

C7_FatalFallback ==
    [][/\ (FatalStart \/ FatalEnd \/ FatalKeyboard) => pc' = "failed"
       /\ pc = "failed" => /\ pc' = "done"
                           /\ output' = <<start, end, Sentinel>>
                           /\ openSet' = <<>> /\ closedSet' = <<>> /\ vertex_index' = <<>>
                           /\ vertex_start' = NULL /\ vertex_end' = NULL]_vars

C7_Witness ==
    /\ pc = "done"
    /\ opt # 0
    /\ vertex_start = NULL
    /\ start # end
    /\ closedSet = <<>>
    /\ output = <<start, end, Sentinel>>

\* ------------------------------------------------------------------------
\* C8: when the start is strictly Inside two or more Barred/Nearest/
\* Contained polygons, start fixup finishes its pass: at a later such
\* polygon (a relocation from an earlier one is recorded) the pass skips the
\* polygon, moving on to the next one and keeping the relocated start and
\* the prepend point.
\* ------------------------------------------------------------------------
C8_LaterStartSkipped ==
    [][(/\ pc = "fixup_start"
        /\ it <= Len(polygons)
        /\ prependPoint # NoPoint
        /\ polygons[it].type # POLY_TOTAL_ACCESS
        /\ contained(start, polygons[it], V) = CONT_INSIDE
        /\ polygons[it].type = POLY_CONTAINED_ACCESS => nearbyPolygon(start, polygons[it], V))
       => (/\ pc' = "fixup_start"
           /\ it' = it + 1
           /\ polygons' = polygons
           /\ new_start' = new_start
           /\ prependPoint' = prependPoint)]_vars

\* ------------------------------------------------------------------------
\* C9: when the end is contained in two or more Barred/Nearest/Contained
\* polygons, end fixup finishes its pass and returns the end relocated by
\* the first of them: at a later one the pass moves on to the next polygon
\* and changes neither the relocated end nor the append point.
\* ------------------------------------------------------------------------
ContainsEnd(i) ==
    /\ polygons[i].type # POLY_TOTAL_ACCESS
    /\ contained(end, polygons[i], V) # CONT_OUTSIDE

C9_LaterEndSkipped ==
    [][(/\ pc = "fixup_end"
        /\ it <= Len(polygons)
        /\ ContainsEnd(it)
        /\ \E j \in 1..(it - 1) : ContainsEnd(j))
       => (/\ pc' = "fixup_end"
           /\ it' = it + 1
           /\ polygons' = polygons
           /\ new_end' = new_end
           /\ appendPoint' = appendPoint)]_vars

\* ------------------------------------------------------------------------
\* C10: merge_point is idempotent: for every polygon set of a call (as
\* converted, and as left by scene building) and every point p, a second merge_point of p right after a first returns the vertex
\* the first returned and leaves the polygon list, every polygon's type and
\* every polygon's cyclic vertex sequence as the first call left them.
\* ------------------------------------------------------------------------
Topology(polys, W) ==
    [i \in 1..Len(polys) |->
        [type |-> polys[i].type, vertices |-> CLIST_FOREACH(W, polys[i].vertices)]]

MergedTwice(p) ==
    LET m1 == merge_point(polygons, V, p)
        m2 == merge_point(m1.polygons, m1.V, p)
    IN  /\ m2.vertex = m1.vertex
        /\ m1.V[m1.vertex].v = p
        /\ Topology(m2.polygons, m2.V) = Topology(m1.polygons, m1.V)

C10_MergeIdempotent ==
    pc \in {"keyboard", "astar_start"} => \A p \in Grid : MergedTwice(p)

\* the first merge splits an edge with a new vertex, the second finds it
C10_Witness ==
    /\ pc = "astar_start"
    /\ \E p \in Grid :
          LET m1 == merge_point(polygons, V, p)
          IN  /\ m1.vertex > Len(V)
              /\ VERTEX_HAS_EDGES(m1.V, m1.vertex)
              /\ merge_point(m1.polygons, m1.V, p).vertex = m1.vertex
              /\ MergedTwice(p)

\* ------------------------------------------------------------------------
\* C11: for a POLY_CONTAINED_ACCESS polygon P and every point p,
\* contained(p, P) is CONT_INSIDE exactly when the same test on the same
\* vertex list with another type is CONT_OUTSIDE, and CONT_OUTSIDE exactly
\* when that test is CONT_INSIDE; CONT_ON_EDGE is the result for both
\* types or for neither, and it is the result for every vertex of P.
\* ------------------------------------------------------------------------
AsType(polygon, t) == [polygon EXCEPT !.type = t]

C11_ContainmentInversion ==
    (pc = "done" /\ polygons # <<>>) =>
        LET P == AsType(polygons[1], POLY_CONTAINED_ACCESS)
        IN  \A p \in Grid : \A t \in PolygonTypes \ {POLY_CONTAINED_ACCESS} :
                LET c == contained(p, P, V)
                    g == contained(p, AsType(P, t), V)
                IN  /\ (c = CONT_INSIDE) <=> (g = CONT_OUTSIDE)
                    /\ (c = CONT_OUTSIDE) <=> (g = CONT_INSIDE)
                    /\ (c = CONT_ON_EDGE) <=> (g = CONT_ON_EDGE)
                    /\ (\E i \in 1..Len(poly_list[1].points) : poly_list[1].points[i] = p)
                           => c = CONT_ON_EDGE

\* a ContainedAccess polygon was converted and the point, which the test
\* on the obstacle reading of the vertices reports outside, is Inside it
C11_Witness ==
    /\ pc = "done"
    /\ polygons # <<>>
    /\ poly_list[1].type = POLY_CONTAINED_ACCESS
    /\ retval = 0
    /\ contained(start, AsType(polygons[1], POLY_CONTAINED_ACCESS), V) = CONT_INSIDE

\* ------------------------------------------------------------------------
\* C12: at optimization level 1 or 2, when the start is CONT_INSIDE a
\* POLY_BARRED_ACCESS polygon and the relocation succeeded, the first
\* point of the output is the start given to the call and the second
\* point is the relocated start vertex. The relocated start is never
\* CONT_INSIDE that polygon (C12_RelocatedStart); it need not be
\* CONT_ON_EDGE, as C12_SecondOnEdge states: find_free_point returns the
\* first lattice point near the boundary that is not CONT_INSIDE, and
\* that point can be CONT_OUTSIDE.
\* ------------------------------------------------------------------------
\* the polygon set as convert_polygon_set converts it, before any fixup
Converted == ConvertFrom(poly_list, 1, <<>>, <<>>, 0)

\* the converted obstacles that hold the start strictly inside
BarredAroundStart ==
    {i \in 1..Len(Converted.polygons) :
        /\ Converted.polygons[i].type = POLY_BARRED_ACCESS
        /\ contained(start, Converted.polygons[i], Converted.V) = CONT_INSIDE}

StartRelocated ==
    /\ pc = "done"
    /\ opt \in {1, 2}
    /\ vertex_start # NULL
    /\ prependPoint # NoPoint

C12_SecondOnEdge ==
    StartRelocated =>
        \A i \in BarredAroundStart :
            /\ output[1] = start
            /\ contained(output[2], Converted.polygons[i], Converted.V) = CONT_ON_EDGE

C12_RelocatedStart ==
    StartRelocated =>
        \A i \in BarredAroundStart :
            /\ output[1] = start
            /\ output[2] = V[vertex_start].v
            /\ output[2] = new_start
            /\ contained(output[2], Converted.polygons[i], Converted.V) # CONT_INSIDE

\* the start was inside an obstacle and was moved to a point of its boundary
C12_Witness ==
    /\ StartRelocated
    /\ \E i \in BarredAroundStart :
           contained(output[2], Converted.polygons[i], Converted.V) = CONT_ON_EDGE

\* ------------------------------------------------------------------------
\* C13: at optimization level 1 or 2, when the end is inside a
\* POLY_NEAREST_ACCESS polygon and the search selects the relocated end
\* vertex, the last two points of the output before the sentinel are the
\* relocated end followed by the end given to the call.
\* ------------------------------------------------------------------------
\* the converted NearestAccess polygons that hold the end strictly inside
NearestAroundEnd ==
    {i \in 1..Len(Converted.polygons) :
        /\ Converted.polygons[i].type = POLY_NEAREST_ACCESS
        /\ contained(end, Converted.polygons[i], Converted.V) = CONT_INSIDE}

\* AStar left its loop at "Found goal": the end vertex was the open vertex
\* of least costF, so the open set still holds it
GoalFound == vertex_end # NULL /\ openSet # <<>>

C13_SnapThenEnd ==
    (pc = "done" /\ opt \in {1, 2} /\ GoalFound /\ NearestAroundEnd # {} /\ appendPoint # NoPoint)
        => /\ Len(Written) >= 2
           /\ Written[Len(Written) - 1] = new_end
           /\ Written[Len(Written)] = end

\* ------------------------------------------------------------------------
\* C14: the call ScenarioB (one obstacle (4,-4),(4,4),(6,4),(6,-4) across
\* the line from (0,0) to (10,0), screen 20 by 20, optimization level 1)
\* writes the start, the two corners of one side of the obstacle in the
\* order (4,y),(6,y), and the end. Neither the start nor the end is
\* relocated. The cost of the route is above the straight distance 10 and
\* no greater than the cost of either detour.
\* ------------------------------------------------------------------------
InScenarioB ==
    /\ start = ScenarioB.start
    /\ end = ScenarioB.end
    /\ opt = ScenarioB.opt
    /\ poly_list = ScenarioB.poly_list
    /\ width = ScenarioB.width
    /\ height = ScenarioB.height

\* the sum of the step costs along a sequence of points, as AStar costs a step
RECURSIVE PathCost(_, _)
PathCost(path, k) ==
    IF k >= Len(path) THEN 0
    ELSE isqrt(sqrDist(path[k], path[k + 1])) + PathCost(path, k + 1)

DetourAbove == <<ScenarioB.start, Point(4, 4), Point(6, 4), ScenarioB.end>>
DetourBelow == <<ScenarioB.start, Point(4, -4), Point(6, -4), ScenarioB.end>>

C14_ScenarioB ==
    (pc = "done" /\ InScenarioB)
        => /\ Written \in {DetourAbove, DetourBelow}
           /\ output[Len(output)] = Sentinel
           /\ prependPoint = NoPoint
           /\ appendPoint = NoPoint
           /\ new_start = start
           /\ new_end = end
           /\ V[vertex_start].v = start
           /\ V[vertex_end].v = end
           /\ PathCost(Written, 1) > isqrt(sqrDist(start, end))
           /\ isqrt(sqrDist(start, end)) = 10
           /\ PathCost(Written, 1) <= PathCost(DetourAbove, 1)
           /\ PathCost(Written, 1) <= PathCost(DetourBelow, 1)
           /\ V[vertex_end].costG = PathCost(Written, 1)

\* the call has returned a route around the obstacle
C14_Witness ==
    /\ pc = "done"
    /\ InScenarioB
    /\ Routed
    /\ Len(Written) = 4

\* ------------------------------------------------------------------------
\* C15: at optimization level 0 the point merged as the start is the
\* nearest intersection of the segment from the start to the end with the
\* polygons that change_polygons_opt_0 leaves in the list; without an
\* intersection the start itself is merged and no prepend point is
\* recorded, with one the start is the prepend point. The merged end is
\* the end given to the call. The polygons left in the list are those that
\* were not POLY_TOTAL_ACCESS in the input (C15_KeyboardStart): a
\* POLY_NEAREST_ACCESS polygon is retyped, not removed, and
\* nearest_intersection does not look at the type, so it contributes
\* intersections, and C15_BarredContainedOnly does not hold.
\* ------------------------------------------------------------------------
NotTotal(polygon) == polygon.type # POLY_TOTAL_ACCESS

BarredOrContained(polygon) == polygon.type \in {POLY_BARRED_ACCESS, POLY_CONTAINED_ACCESS}

\* the start and the end merged are those that the nearest intersection
\* with the polygons polys gives
KeyboardMerged(polys) ==
    LET r == nearest_intersection(polys, Converted.V, start, end)
    IN  /\ r.err = PF_OK => (V[vertex_start].v = r.ret /\ prependPoint = start)
        /\ r.err = PF_ERROR => (V[vertex_start].v = start /\ prependPoint = NoPoint)
        /\ r.err # PF_FATAL
        /\ V[vertex_end].v = end

C15_BarredContainedOnly ==
    (pc = "astar_start" /\ opt = 0)
        => KeyboardMerged(SelectSeq(Converted.polygons, BarredOrContained))

C15_KeyboardStart ==
    (pc = "astar_start" /\ opt = 0)
        => KeyboardMerged(SelectSeq(Converted.polygons, NotTotal))

\* the start was replaced by a point of the boundary of an obstacle, while
\* a polygon that was TotalAccess in the input was crossed and ignored
C15_Witness ==
    /\ pc = "astar_start"
    /\ opt = 0
    /\ prependPoint = start
    /\ V[vertex_start].v # start
    /\ \E i \in 1..Len(Converted.polygons) : Converted.polygons[i].type = POLY_TOTAL_ACCESS
    /\ nearest_intersection(Converted.polygons, Converted.V, start, end).ret # V[vertex_start].v

\* ------------------------------------------------------------------------
\* C16: the call with 3 arguments returns 1 exactly when the point is
\* inside the polygon or on its boundary, whatever the type of the
\* polygon (the result for POLY_CONTAINED_ACCESS is not inverted), and
\* returns NULL_REG for a polygon without vertices. It runs no search.
\* The geometric answer is computed from the script polygon, without
\* contained: the point is on the boundary when it lies on an edge, and is
\* inside when, off the boundary, the vertical ray going up from it
\* crosses the boundary an odd number of times.
\* ------------------------------------------------------------------------
Cross(a, b, p) == (b[1] - a[1]) * (p[2] - a[2]) - (p[1] - a[1]) * (b[2] - a[2])

OnSegment(p, a, b) ==
    /\ Cross(a, b, p) = 0
    /\ (a[1] <= p[1] /\ p[1] <= b[1]) \/ (b[1] <= p[1] /\ p[1] <= a[1])
    /\ (a[2] <= p[2] /\ p[2] <= b[2]) \/ (b[2] <= p[2] /\ p[2] <= a[2])

NextPoint(pts, i) == pts[(i % Len(pts)) + 1]

GeomOnBoundary(p, pts) == \E i \in 1..Len(pts) : OnSegment(p, pts[i], NextPoint(pts, i))

\* the edge from a to b passes above p
PassesAbove(p, a, b) ==
    /\ (a[1] <= p[1]) # (b[1] <= p[1])
    /\ IF a[1] < b[1] THEN Cross(a, b, p) < 0 ELSE Cross(a, b, p) > 0

GeomInside(p, pts) ==
    /\ ~GeomOnBoundary(p, pts)
    /\ Cardinality({i \in 1..Len(pts) : PassesAbove(p, pts[i], NextPoint(pts, i))}) % 2 = 1

C16_ContainsPoint ==
    pc = "done" =>
        LET pts == poly_list[1].points
        IN  /\ retval = (IF pts = <<>> THEN NULL
                         ELSE IF GeomOnBoundary(start, pts) \/ GeomInside(start, pts) THEN 1
                         ELSE 0)
            /\ vertex_start = NULL
            /\ vertex_end = NULL
            /\ vertex_index = <<>>
            /\ openSet = <<>>
            /\ closedSet = <<>>
            /\ output = <<>>

\* the point is strictly inside a ContainedAccess polygon and the call
\* has returned 1
C16_Witness ==
    /\ pc = "done"
    /\ poly_list[1].type = POLY_CONTAINED_ACCESS
    /\ GeomInside(start, poly_list[1].points)
    /\ retval = 1

\* ------------------------------------------------------------------------
\* C17: in the output of a search that gave the end vertex a predecessor,
\* no vertex of the route strictly between the start vertex and the end
\* vertex lies on the screen border.
\* ------------------------------------------------------------------------
C17_NoBorderVertex ==
    (pc = "done" /\ Routed)
        => LET route == RouteTo(V, vertex_end)
           IN  /\ route[1] = vertex_start
               /\ route[Len(route)] = vertex_end
               /\ \A k \in 2..(Len(route) - 1) : ~pointOnScreenBorder(V[route[k]].v)

\* a route with a vertex between the start and the end was written, while
\* a vertex on the screen border was visible from the start vertex
C17_Witness ==
    /\ pc = "done"
    /\ Routed
    /\ Len(RouteTo(V, vertex_end)) >= 3
    /\ \E i \in 1..Len(vertex_index) :
          /\ vertex_index[i] \notin {vertex_start, vertex_end}
          /\ pointOnScreenBorder(V[vertex_index[i]].v)
          /\ IsVisible(vertex_index, V, vertex_start, vertex_index[i])

\* ------------------------------------------------------------------------
\* C18: the estimate that AStar adds to costG to form costF, the truncated
\* straight distance from a vertex to the end vertex, is no greater than
\* the least sum of step costs of a route from that vertex to the end
\* vertex in the graph the search walks.
\* ------------------------------------------------------------------------
\* One round of relaxation towards the end vertex
RoundBack(d, table) ==
    LET n == Len(d)
    IN  SubSeq([i \in 1..n |->
                  LeastOf({d[i]} \cup {StepCost(vertex_index[i], vertex_index[j]) + d[j] :
                                         j \in {k \in 1..n : d[k] < HUGE_DISTANCE /\ table[i][k]}})],
               1, n)

RECURSIVE SettleBack(_, _, _)
SettleBack(d, table, rounds) ==
    IF rounds = 0 THEN d ELSE SettleBack(RoundBack(d, table), table, rounds - 1)

\* The least cost of a route from each vertex of the index to the end vertex
LeastCostToEnd ==
    LET n == Len(vertex_index)
        d0 == SubSeq([i \in 1..n |-> IF vertex_index[i] = vertex_end THEN 0 ELSE HUGE_DISTANCE],
                     1, n)
    IN  SettleBack(d0, StepTable, n - 1)

\* The estimate of lines 1647 and 1693
Estimate(vertex) == isqrt(sqrDist(V[vertex].v, V[vertex_end].v))

C18_Admissible ==
    pc = "output" =>
        LET least == LeastCostToEnd
        IN  \A i \in 1..Len(vertex_index) : Estimate(vertex_index[i]) <= least[i]

\* ------------------------------------------------------------------------
\* C19: when the search has ended, costG of every vertex with a
\* predecessor is costG of the predecessor plus the cost of the step from
\* it, and costG of the start vertex is 0: along the route written, costG
\* does not decrease from one vertex to the next.
\* ------------------------------------------------------------------------
C19_CostAccumulates ==
    pc = "output" =>
        /\ V[vertex_start].costG = 0
        /\ V[vertex_start].path_prev = NULL
        /\ \A v \in 1..Len(V) :
              V[v].path_prev # NULL =>
                /\ V[V[v].path_prev].costG < HUGE_DISTANCE
                /\ V[v].costG = V[V[v].path_prev].costG + StepCost(V[v].path_prev, v)
        /\ LET route == RouteTo(V, vertex_end)
           IN  \A k \in 1..(Len(route) - 1) : V[route[k]].costG <= V[route[k + 1]].costG

\* the search has ended with a route of three vertices or more
C19_Witness ==
    /\ pc = "output"
    /\ Routed
    /\ Len(RouteTo(V, vertex_end)) >= 3
    /\ V[vertex_end].costG > V[V[vertex_end].path_prev].costG
    /\ V[V[vertex_end].path_prev].costG > 0

\* ------------------------------------------------------------------------
\* C20: after the conversion of the polygon set, and after every removal
\* by the fixups, every type change of optimization level 0 and every merge
\* of a point, polygon_area is >= 0 for every polygon of the state that is
\* not POLY_CONTAINED_ACCESS and <= 0 for every POLY_CONTAINED_ACCESS
\* polygon.
\* ------------------------------------------------------------------------
WindingKept(polygon) ==
    IF polygon.type = POLY_CONTAINED_ACCESS
    THEN polygon_area(polygon, V) <= 0
    ELSE polygon_area(polygon, V) >= 0

C20_Winding ==
    pc \in {"fixup_start", "fixup_end", "keyboard", "astar_start"}
        => \A i \in 1..Len(polygons) : WindingKept(polygons[i])

\* the points have been merged: an edge of a ContainedAccess polygon of
\* negative area was split and the polygon of a merged point stands alone
C20_Witness ==
    /\ pc = "astar_start"
    /\ \E i \in 1..Len(polygons) :
          /\ polygons[i].type = POLY_CONTAINED_ACCESS
          /\ polygon_area(polygons[i], V) < 0
          /\ Len(CLIST_FOREACH(V, polygons[i].vertices)) > Len(poly_list[1].points)
    /\ \E i \in 1..Len(polygons) :
          /\ polygons[i].type # POLY_CONTAINED_ACCESS
          /\ polygon_area(polygons[i], V) = 0

\* ------------------------------------------------------------------------
\* C21: at optimization level 1 or 2, when the start fixup has completed,
\* the start was relocated, and the start given to the call recorded as the
\* prepend point, exactly when contained reports CONT_INSIDE for the start
\* and some polygon that is POLY_BARRED_ACCESS, POLY_NEAREST_ACCESS or a
\* POLY_CONTAINED_ACCESS polygon that the fixup keeps; otherwise the start
\* is left as it was, no prepend point is recorded, and the start is merged
\* unchanged.
\* ------------------------------------------------------------------------
\* the converted polygons, other than TotalAccess, that the start fixup
\* keeps and that hold the start strictly inside
KeptAroundStart ==
    {i \in 1..Len(Converted.polygons) :
        LET polygon == Converted.polygons[i]
        IN  /\ polygon.type # POLY_TOTAL_ACCESS
            /\ contained(start, polygon, Converted.V) = CONT_INSIDE
            /\ polygon.type = POLY_CONTAINED_ACCESS
                    => nearbyPolygon(start, polygon, Converted.V)}

C21_StartRelocation ==
    /\ pc = "fixup_end"
          => IF KeptAroundStart # {}
             THEN prependPoint = start /\ new_start # start
             ELSE prependPoint = NoPoint /\ new_start = start
    /\ (pc = "astar_start" /\ opt \in {1, 2})
          => /\ V[vertex_start].v = new_start
             /\ (prependPoint = NoPoint) <=> (new_start = start)

\* the start is on the boundary of an obstacle and was merged unchanged
C21_Witness ==
    /\ pc = "astar_start"
    /\ opt \in {1, 2}
    /\ prependPoint = NoPoint
    /\ V[vertex_start].v = start
    /\ \E i \in 1..Len(Converted.polygons) :
          /\ Converted.polygons[i].type = POLY_BARRED_ACCESS
          /\ contained(start, Converted.polygons[i], Converted.V) = CONT_ON_EDGE

\* ------------------------------------------------------------------------
\* C22: at optimization level 1 or 2, once the start fixup and the end
\* fixup have both completed, contained reports CONT_OUTSIDE for the start
\* and for the end given to the call with every POLY_TOTAL_ACCESS polygon
\* still in the state.
\* ------------------------------------------------------------------------
FixupsCompleted ==
    \/ pc = "fixup_end" /\ it > Len(polygons)
    \/ pc = "astar_start" /\ opt \in {1, 2}

C22_TotalRemoved ==
    FixupsCompleted =>
        \A i \in 1..Len(polygons) :
            polygons[i].type = POLY_TOTAL_ACCESS
                => /\ contained(start, polygons[i], V) = CONT_OUTSIDE
                   /\ contained(end, polygons[i], V) = CONT_OUTSIDE

\* a TotalAccess polygon with the end on its boundary and the start outside
\* it was removed by the end fixup
C22_Witness ==
    /\ pc = "fixup_end"
    /\ it > Len(polygons)
    /\ Converted.polygons # <<>>
    /\ Converted.polygons[1].type = POLY_TOTAL_ACCESS
    /\ contained(start, Converted.polygons[1], Converted.V) = CONT_OUTSIDE
    /\ contained(end, Converted.polygons[1], Converted.V) = CONT_ON_EDGE
    /\ \A i \in 1..Len(polygons) : polygons[i].type # POLY_TOTAL_ACCESS

\* ------------------------------------------------------------------------
\* C23: merge_point of a point p that no vertex holds does one of two
\* things. If p lies on an edge of a polygon with edges, one new vertex
\* holding p is put between the ends a and b of the first such edge in list
\* order, directly after a; no polygon type, no other polygon and no other
\* adjacency changes. Otherwise one new polygon of type POLY_BARRED_ACCESS
\* with the single vertex p is added and no polygon of the list changes.
\* ------------------------------------------------------------------------
\* the positions <<i, k>> of the edges of polys that p lies on: the edge
\* from the k-th vertex of the i-th polygon to the next
EdgesThrough(polys, W, p) ==
    {e \in UNION {{<<i, k>> : k \in 1..Len(CLIST_FOREACH(W, polys[i].vertices))} :
                    i \in 1..Len(polys)} :
        LET vs == CLIST_FOREACH(W, polys[e[1]].vertices)
        IN  /\ Len(vs) > 1
            /\ OnSegment(p, W[vs[e[2]]].v, W[vs[(e[2] % Len(vs)) + 1]].v)}

FirstEdge(es) ==
    CHOOSE e \in es : \A f \in es : e[1] < f[1] \/ (e[1] = f[1] /\ e[2] <= f[2])

\* the lists are well linked: _prev undoes _next
WellLinked(polys, W) ==
    \A i \in 1..Len(polys) :
        LET vs == CLIST_FOREACH(W, polys[i].vertices)
        IN  \A k \in 1..Len(vs) : W[W[vs[k]]._next]._prev = vs[k]

InsertAt(seq, k, x) == SubSeq(seq, 1, k) \o <<x>> \o SubSeq(seq, k + 1, Len(seq))

MergeFrame(p) ==
    LET m == merge_point(polygons, V, p)
        before == Topology(polygons, V)
        after == Topology(m.polygons, m.V)
        es == EdgesThrough(polygons, V, p)
        v_new == Len(V) + 1
    IN  /\ m.vertex = v_new
        /\ Len(m.V) = v_new
        /\ m.V[v_new].v = p
        /\ \A v \in 1..Len(V) :
              /\ m.V[v].v = V[v].v
              /\ m.V[v].costG = V[v].costG
              /\ m.V[v].costF = V[v].costF
              /\ m.V[v].path_prev = V[v].path_prev
        /\ WellLinked(m.polygons, m.V)
        /\ IF es # {}
           THEN LET e == FirstEdge(es)
                IN  /\ Len(after) = Len(before)
                    /\ \A i \in 1..Len(before) :
                          /\ after[i].type = before[i].type
                          /\ m.polygons[i].vertices = polygons[i].vertices
                          /\ after[i].vertices =
                                IF i = e[1] THEN InsertAt(before[i].vertices, e[2], v_new)
                                ELSE before[i].vertices
           ELSE /\ Len(after) = Len(before) + 1
                /\ after[1] = [type |-> POLY_BARRED_ACCESS, vertices |-> <<v_new>>]
                /\ Tail(after) = before

C23_MergeFrame ==
    pc \in {"keyboard", "astar_start"}
        => \A p \in Grid : FindVertex(polygons, V, p, 1) = NULL => MergeFrame(p)

\* the start and the end are merged: a polygon of a merged point stands
\* alone, and among the points not yet merged one lies on an edge and
\* another on none
C23_Witness ==
    /\ pc = "astar_start"
    /\ \E i \in 1..Len(polygons) : ~VERTEX_HAS_EDGES(V, polygons[i].vertices)
    /\ \E p \in Grid : FindVertex(polygons, V, p, 1) = NULL /\ EdgesThrough(polygons, V, p) # {}
    /\ \E p \in Grid : FindVertex(polygons, V, p, 1) = NULL /\ EdgesThrough(polygons, V, p) = {}
    /\ \A p \in Grid : FindVertex(polygons, V, p, 1) = NULL => MergeFrame(p)

\* ------------------------------------------------------------------------
\* C24: for a simple polygon of a type other than POLY_CONTAINED_ACCESS
\* and every lattice point p, contained(p, polygon) is CONT_ON_EDGE exactly
\* when p is on the boundary (a vertex or a point of an edge, a horizontal
\* edge included), CONT_INSIDE exactly when p is strictly inside, and
\* CONT_OUTSIDE otherwise, as the reference test on the script polygon
\* answers.
\* ------------------------------------------------------------------------
Reference(p, pts) ==
    IF GeomOnBoundary(p, pts) THEN CONT_ON_EDGE
    ELSE IF GeomInside(p, pts) THEN CONT_INSIDE
    ELSE CONT_OUTSIDE

\* the lattice points of the screen and of a margin around it
Lattice == {Point(x, y) : x \in (-1)..Width, y \in (-1)..Height}

C24_ContainedReference ==
    (pc = "done" /\ polygons # <<>>) =>
        \A p \in Lattice : \A t \in PolygonTypes \ {POLY_CONTAINED_ACCESS} :
            contained(p, AsType(polygons[1], t), V) = Reference(p, poly_list[1].points)

\* the concave polygon was converted: one point is on a horizontal edge
\* and is no vertex, one is strictly inside and one lies in the notch
C24_Witness ==
    /\ pc = "done"
    /\ polygons # <<>>
    /\ poly_list[1].points = ShapeNotch
    /\ contained(Point(3, 0), polygons[1], V) = CONT_ON_EDGE
    /\ contained(Point(2, 2), polygons[1], V) = CONT_INSIDE
    /\ contained(Point(3, 3), polygons[1], V) = CONT_OUTSIDE
    /\ start = Point(3, 3)

\* ------------------------------------------------------------------------
\* C25: between(a, b, c) is true exactly when c lies on the closed segment
\* from a to b; when a and b are one point, only for c equal to it. The
\* segment is the one nearest_intersection tests the vertices against, from
\* the start to the end of a call at optimization level 0, and c is every
\* point of the screen.
\* ------------------------------------------------------------------------
C25_Between ==
    pc = "keyboard" =>
        \A c \in Grid :
            /\ between(start, end, c) <=> OnSegment(c, start, end)
            /\ start = end => (between(start, end, c) <=> c = start)

\* ------------------------------------------------------------------------
\* C26: find_free_point(f, polygon) tries the rounded point, then the
\* lattice points (floor x, floor y), (+1, 0), (+1, +1), (0, +1) from it, in
\* that order, and returns the first for which contained does not report
\* CONT_INSIDE; a point returned with PF_OK is not CONT_INSIDE the
\* polygon, and PF_FATAL is returned only when all five are. The points f
\* are the near points that the fixups compute, for the start and the end
\* of the call and every polygon of the state.
\* ------------------------------------------------------------------------
\* the five points in the order of the search
ProbeSeq(f) ==
    LET rx == (2 * f.x + f.d) \div (2 * f.d)
        ry == (2 * f.y + f.d) \div (2 * f.d)
        fx == f.x \div f.d
        fy == f.y \div f.d
    IN  <<Point(rx, ry), Point(fx, fy), Point(fx + 1, fy), Point(fx + 1, fy + 1), Point(fx, fy + 1)>>

NearPointOf(q, polygon) ==
    NearFrom(q, polygon, V, CLIST_FOREACH(V, polygon.vertices), 1, FloatPoint(0, 0, 1),
             HUGE_DISTANCE)

FirstFree(f, polygon) ==
    LET probes == ProbeSeq(f)
        free == {k \in 1..Len(probes) : contained(probes[k], polygon, V) # CONT_INSIDE}
        r == find_free_point(f, polygon, V)
    IN  IF free = {}
        THEN r.err = PF_FATAL
        ELSE /\ r.err = PF_OK
             /\ r.ret = probes[CHOOSE k \in free : \A m \in free : k <= m]
             /\ contained(r.ret, polygon, V) # CONT_INSIDE

SetOf(list) == {list[k] : k \in 1..Len(list)}

\* the passes of the while loop made so far
Passes == Len(closedSet) + (IF pc \in {"output", "done"} /\ openSet # <<>> THEN 1 ELSE 0)

OpenClosedSound ==
    pc \in {"astar", "output", "done"} =>
        /\ SetOf(openSet) \cap SetOf(closedSet) = {}
        /\ SetOf(openSet) \cup SetOf(closedSet) \subseteq SetOf(vertex_index)
        /\ Cardinality(SetOf(closedSet)) = Len(closedSet)
        /\ Cardinality(SetOf(openSet)) = Len(openSet)
        /\ Passes <= Len(vertex_index)

ClosedStays ==
    pc = "astar" =>
        \A v \in SetOf(closedSet) :
            /\ v \in SetOf(closedSet')
            /\ v \notin SetOf(openSet')
            /\ V'[v] = V[v]

C27_ExpandedOnce == [][OpenClosedSound' /\ ClosedStays]_vars

\* the search has found the goal after it expanded three vertices or more,
\* with vertices left in the open set
C27_Witness ==
    /\ pc = "output"
    /\ Len(closedSet) >= 3
    /\ Len(openSet) >= 2
    /\ Routed

\* ------------------------------------------------------------------------
\* C28: in every state of a run of AStar the start vertex has no
\* predecessor, every other vertex of the open or the closed set has a
\* predecessor that is in the closed set, and the walk along path_prev
\* from such a vertex meets no vertex twice and ends at the start vertex.
\* So when the end vertex has a predecessor the route written begins with
\* the start vertex and ends with the end vertex, and the walk of
\* output_path that counts its length ends.
\* ------------------------------------------------------------------------
\* the vertices met along path_prev from vertex, in at most n steps
RECURSIVE WalkBack(_, _)
WalkBack(vertex, n) ==
    IF vertex = NULL \/ n = 0 THEN <<>>
    ELSE <<vertex>> \o WalkBack(V[vertex].path_prev, n - 1)

WalkEndsAtStart(vertex) ==
    LET walk == WalkBack(vertex, Len(V) + 1)
    IN  /\ Len(walk) <= Len(vertex_index)
        /\ Cardinality(SetOf(walk)) = Len(walk)
        /\ walk[Len(walk)] = vertex_start

C28_PredecessorChain ==
    /\ pc \in {"astar", "output", "done"} /\ vertex_start # NULL
          => /\ V[vertex_start].path_prev = NULL
             /\ \A v \in (SetOf(openSet) \cup SetOf(closedSet)) \ {vertex_start} :
                   /\ V[v].path_prev \in SetOf(closedSet)
                   /\ WalkEndsAtStart(v)
    /\ (pc = "done" /\ Routed)
          => LET walk == WalkBack(vertex_end, Len(V) + 1)
                 n == Len(walk)
                 offset == IF prependPoint # NoPoint THEN 1 ELSE 0
             IN  /\ walk[1] = vertex_end
                 /\ walk[n] = vertex_start
                 /\ output[offset + 1] = V[vertex_start].v
                 /\ output[offset + n] = V[vertex_end].v
                 /\ \A k \in 1..n : output[offset + k] = V[walk[n + 1 - k]].v
                 /\ Len(output) = offset + n + (IF appendPoint # NoPoint THEN 1 ELSE 0) + 1

\* a route of four vertices was written after the start was relocated
C28_Witness ==
    /\ pc = "done"
    /\ Routed
    /\ prependPoint # NoPoint
    /\ Len(WalkBack(vertex_end, Len(V) + 1)) >= 4
    /\ output[2] = V[vertex_start].v

\* ------------------------------------------------------------------------
\* C29: visibility is symmetric and irreflexive: for every two vertices u
\* and v of the index, u is in visible_vertices(s, v) exactly when v is in
\* visible_vertices(s, u), and v is never in visible_vertices(s, v).
\* ------------------------------------------------------------------------
\* the sets of the vertices visible from each vertex of the index
VisibleSets ==
    LET n == Len(vertex_index)
    IN  SubSeq([i \in 1..n |-> SetOf(visible_vertices(vertex_index, V, vertex_index[i]))], 1, n)

C29_VisibilitySymmetric ==
    pc = "astar_start" =>
        LET n == Len(vertex_index)
            vis == VisibleSets
        IN  \A i \in 1..n :
                /\ vertex_index[i] \notin vis[i]
                /\ vis[i] \subseteq SetOf(vertex_index)
                /\ \A j \in 1..n : (vertex_index[j] \in vis[i]) <=> (vertex_index[i] \in vis[j])

\* the index is built: the start sees a vertex of an obstacle and does not
\* see the end
C29_Witness ==
    /\ pc = "astar_start"
    /\ vertex_start # vertex_end
    /\ LET vis == SetOf(visible_vertices(vertex_index, V, vertex_start))
       IN  /\ vertex_end \notin vis
           /\ \E v \in vis : VERTEX_HAS_EDGES(V, v)
    /\ vertex_start \notin SetOf(visible_vertices(vertex_index, V, vertex_end))

\* ---------------------------------------------------------------------------
\* C30: after scene building the vertex index holds at most count + 2
\* vertices, where count is the sum of the declared sizes of the converted
\* input polygons (the capacity malloc'ed for the index), in both optimization
\* modes; no vertex is written twice, and the start vertex and the end vertex
\* are both entries of the index.
RECURSIVE DeclaredSizes(_, _)
DeclaredSizes(list, i) ==
    IF i > Len(list) THEN 0 ELSE Len(list[i].points) + DeclaredSizes(list, i + 1)

C30_IndexWithinCapacity ==
    pc = "astar_start" =>
        /\ count = DeclaredSizes(poly_list, 1)
        /\ Len(vertex_index) <= count + 2
        /\ Cardinality(SetOf(vertex_index)) = Len(vertex_index)
        /\ vertex_start \in SetOf(vertex_index)
        /\ vertex_end \in SetOf(vertex_index)

\* Both merged points became new vertices: the index is filled to its capacity
C30_Witness ==
    /\ pc = "astar_start"
    /\ Len(poly_list) >= 2
    /\ Len(vertex_index) = count + 2
    /\ vertex_start # vertex_end

====
